---- MODULE Spec2Model ----
(***************************************************************************)
(* A model of the KALE farming client: the Soroban RPC helper              *)
(* (src/feasibility/kale/src/rpc.rs) and the KALE contract client          *)
(* (src/feasibility/kale/src/contracts/kale.rs).                           *)
(*                                                                         *)
(* One call runs at a time.  A call that awaits the transport is split at  *)
(* the await: the first action issues the request, the next one receives   *)
(* the answer, which the remote side chooses.  `call` holds the running    *)
(* (or returned) call and its arguments, `ret` the value it returned,      *)
(* `log` the transport requests it issued and how each was answered,       *)
(* `lastAnswer` the last answer it got,  `frame` its local variables,      *)
(* `held` the draft the caller got from a successful build and has not yet *)
(* passed on, `heldSim` the simulation response the caller got for it.     *)
(***************************************************************************)
EXTENDS Integers, Sequences, FiniteSets, TLC

VARIABLES pc, call, ret, log, lastAnswer, held, heldSim, frame,
          auth_state, server, handler, reply, ledger, parked

\* What a call of the core and its caller hold.
core == <<pc, call, ret, log, lastAnswer, held, heldSim, frame>>

\* What is outside every call of the core: the state of the HTTP front end
\* (albedo.rs), the remote ledger, and a second caller's call.
outside == <<auth_state, server, handler, reply, ledger, parked>>

vars == <<core, outside>>

(***************************************************************************)
(* Results.  A Rust panic unwinds the call: no value is returned.          *)
(***************************************************************************)
Ok(v) == [ok |-> TRUE, val |-> v]

Err(e) == [ok |-> FALSE, err |-> e]

Panic == [ok |-> FALSE, err |-> "panic: arithmetic overflow"]

NoRet == [ok |-> FALSE, err |-> "no call yet"]

\* A transport request as `log` records it.
Request(rpc, arg) == [rpc |-> rpc, arg |-> arg, outcome |-> "pending"]

NoTx == [none |-> TRUE]

NoSim == [none |-> TRUE]

NoFrame == [none |-> TRUE]

NoAnswer == [none |-> TRUE]

NoCall == [op |-> "none"]

\* Outside the front end and outside a run against a ledger.
NoAuth == [none |-> TRUE]

NoServer == [none |-> TRUE]

NoHandler == [route |-> "none", stage |-> "none"]

NoReply == [status |-> 0]

NoLedger == [none |-> TRUE]

(***************************************************************************)
(* Fixed-width integers are little-endian sequences of 16-bit limbs:       *)
(* u32 is 2 limbs, u64 and i64 are 4 limbs (two's complement).             *)
(***************************************************************************)
Limb == 2^16

RECURSIVE AddCarry(_, _, _)
AddCarry(a, b, c) ==
    IF a = <<>> THEN <<>>
    ELSE LET s == Head(a) + Head(b) + c
         IN  <<s % Limb>> \o AddCarry(Tail(a), Tail(b), s \div Limb)

\* The limbs of a small natural number (below 2^31), in k limbs.
RECURSIVE FromNat(_, _)
FromNat(n, k) == IF k = 0 THEN <<>> ELSE <<n % Limb>> \o FromNat(n \div Limb, k - 1)

IsNegative(x) == x[Len(x)] >= Limb \div 2

\* Wrapping addition at the width of the operands (release build: `+`).
wrapping_add(a, b) == AddCarry(a, b, 0)

\* Signed overflow of a + b at the width of the operands.
add_overflows(a, b) ==
    /\ IsNegative(a) = IsNegative(b)
    /\ IsNegative(wrapping_add(a, b)) # IsNegative(a)

\* Rust's `a + b` on i64: with overflow checks (debug build) an overflow
\* panics, without them (release build) it wraps.
i64_add(a, b, overflow_checks) ==
    IF add_overflows(a, b) /\ overflow_checks THEN Panic
    ELSE Ok(wrapping_add(a, b))

\* `x as u32` on a 64-bit integer: the low 32 bits.
as_u32(x) == SubSeq(x, 1, 2)

\* `x as i64` on a u64: the same 64 bits.
as_i64(x) == x

\* Widening to k limbs, for stating results as mathematical integers.
ZeroExtend(x, k) == x \o [i \in 1..(k - Len(x)) |-> 0]

SignExtend(x, k) == x \o [i \in 1..(k - Len(x)) |-> IF IsNegative(x) THEN Limb - 1 ELSE 0]

I64_MAX == <<Limb - 1, Limb - 1, Limb - 1, Limb \div 2 - 1>>

I64_MIN == <<0, 0, 0, Limb \div 2>>

(***************************************************************************)
(* Strkey: the textual account / contract identifiers.                     *)
(***************************************************************************)
Strkeys == {"GA", "MA", "CA", "bad"}

\* stellar_strkey::Strkey::from_string: the text's version byte decides the
\* kind; a wrong checksum or length is an error.
Strkey_from_string(s) ==
    CASE s = "GA" -> Ok([kind |-> "PublicKeyEd25519", key |-> "A"])
      [] s = "GB" -> Ok([kind |-> "PublicKeyEd25519", key |-> "B"])
      [] s = "GI" -> Ok([kind |-> "PublicKeyEd25519", key |-> "I"])
      [] s = "MA" -> Ok([kind |-> "MuxedAccountEd25519", key |-> "A"])
      [] s = "CA" -> Ok([kind |-> "Contract", key |-> "A"])
      [] OTHER -> Err("invalid strkey")

(***************************************************************************)
(* ScVal: the tagged values of contract arguments and storage.             *)
(***************************************************************************)
ScU32(n) == [t |-> "U32", u32 |-> n]

ScU64(n) == [t |-> "U64", u64 |-> n]

ScSymbol(s) == [t |-> "Symbol", sym |-> s]

ScBytes(n, b) == [t |-> "Bytes", len |-> n, bytes |-> b]

ScVec(items) == [t |-> "Vec", vec |-> items]

ScMap(entries) == [t |-> "Map", map |-> entries]

ScAddressAccount(k) == [t |-> "Address", kind |-> "Account", key |-> k]

ScVecNone == [t |-> "Vec", none |-> TRUE]

ScMapNone == [t |-> "Map", none |-> TRUE]

ScContractInstance(storage) == [t |-> "ContractInstance", storage |-> storage]

ScVoid == [t |-> "Void"]

IsVecSome(v) == v.t = "Vec" /\ "vec" \in DOMAIN v

IsMapSome(v) == v.t = "Map" /\ "map" \in DOMAIN v

\* Option<T>
None == [some |-> FALSE]

Some(v) == [some |-> TRUE, v |-> v]

contract_id == "KALE"

(***************************************************************************)
(* build_invoke_transaction                                                *)
(***************************************************************************)
SCSYMBOL_LIMIT == 32

LongName == "a_function_name_of_more_than_32_bytes"

StrLen(s) ==
    CASE s = "plant" -> 5
      [] s = "work" -> 4
      [] s = "harvest" -> 7
      [] s = LongName -> 37

PLACEHOLDER_FEE == 100

\* The transport requests build_invoke_transaction issues.
build_requests_with_simulate(source_account) ==
    <<Request("getAccount", source_account), Request("simulateTransaction", source_account)>>

build_requests(source_account) ==
    <<Request("getAccount", source_account)>>

build_transaction_fetched_sequence(pk, function_name, args, account, overflow_checks) ==
    LET sequence == Ok(account.seq_num)
    IN  IF ~sequence.ok THEN Panic
        ELSE IF StrLen(function_name) > SCSYMBOL_LIMIT THEN Err("Function name too long")
        ELSE Ok([source_account |-> [type |-> "Ed25519", key |-> pk.key],
                 fee |-> FromNat(PLACEHOLDER_FEE, 2),
                 seq_num |-> sequence.val,
                 cond |-> "None",
                 memo |-> "None",
                 operations |->
                   << [source_account |-> "None",
                       body |-> [type |-> "InvokeHostFunction",
                                 host_function |->
                                    [type |-> "InvokeContract",
                                     contract_address |-> contract_id,
                                     function_name |-> function_name,
                                     args |-> args],
                                 auth |-> <<>>]] >>,
                 ext |-> [v |-> 0]])

\* build_invoke_transaction from the account entry on: the sequence number,
\* the function symbol, the operation, the transaction.
build_transaction(pk, function_name, args, account, overflow_checks) ==
    LET sequence == i64_add(account.seq_num, FromNat(1, 4), overflow_checks)
    IN  IF ~sequence.ok THEN Panic
        ELSE IF StrLen(function_name) > SCSYMBOL_LIMIT THEN Err("Function name too long")
        ELSE Ok([source_account |-> [type |-> "Ed25519", key |-> pk.key],
                 fee |-> FromNat(PLACEHOLDER_FEE, 2),
                 seq_num |-> sequence.val,
                 cond |-> "None",
                 memo |-> "None",
                 operations |->
                   << [source_account |-> "None",
                       body |-> [type |-> "InvokeHostFunction",
                                 host_function |->
                                    [type |-> "InvokeContract",
                                     contract_address |-> contract_id,
                                     function_name |-> function_name,
                                     args |-> args],
                                 auth |-> <<>>]] >>,
                 ext |-> [v |-> 0]])

build_with_default_sequence(pk, function_name, args, account_response, overflow_checks) ==
    build_transaction(pk, function_name, args,
                      IF account_response.ok THEN account_response.val
                      ELSE [seq_num |-> FromNat(0, 4), balance |-> 0],
                      overflow_checks)

\* The part of build_invoke_transaction after get_account has answered:
\* `get_account(..).await?` hands an error of the transport to the caller.
build_after_get_account(pk, function_name, args, account_response, overflow_checks) ==
    IF ~account_response.ok THEN account_response
    ELSE build_transaction(pk, function_name, args, account_response.val, overflow_checks)

(***************************************************************************)
(* simulate_transaction / apply_simulation_to_transaction                  *)
(***************************************************************************)
MaxAuth == 2

\* Base64 XDR strings as the simulation response carries them: the text
\* either is the encoding of a value of the named type or is not.
XdrOf(type, v) == [b64 |-> type, value |-> v]

Garbage == [b64 |-> "garbage"]

EmptyString == [b64 |-> "empty"]

from_xdr_base64(type, text) ==
    IF text.b64 = type THEN Ok(text.value) ELSE Err("xdr decode error")

AuthXdrs == {XdrOf("SorobanAuthorizationEntry", e) : e \in {"a1", "a2"}} \cup {Garbage}

AuthLists == UNION {[1..n -> AuthXdrs] : n \in 0..MaxAuth}

\* first_result.auth.iter().filter_map(|xdr| from_xdr_base64(xdr).ok()).collect()
RECURSIVE filter_map_auth(_)
filter_map_auth(auth) ==
    IF auth = <<>> THEN <<>>
    ELSE LET d == from_xdr_base64("SorobanAuthorizationEntry", Head(auth))
         IN  (IF d.ok THEN <<d.val>> ELSE <<>>) \o filter_map_auth(Tail(auth))

BASE_FEE == 100

\* The extension apply attaches: the resources and the resource fee of the
\* simulation's SorobanTransactionData.
soroban_ext_missing(soroban_tx_data) == [v |-> 0]

soroban_ext(soroban_tx_data) ==
    [v |-> 1,
     ext |-> "V0",
     resources |-> soroban_tx_data.resources,
     resource_fee |-> soroban_tx_data.resource_fee]

\* apply_simulation_to_transaction building the authorized operation anew,
\* without the arguments of the draft's.
apply_simulation_rebuilding_draft(transaction, simulation, overflow_checks) ==
    IF simulation.results = <<>> THEN Err("No simulation results found")
    ELSE IF simulation.transaction_data = EmptyString
    THEN Err("No transaction data in simulation response")
    ELSE
    LET first_result == Head(simulation.results)
        soroban_tx_data ==
            from_xdr_base64("SorobanTransactionData", simulation.transaction_data)
        auth_entries == filter_map_auth(first_result.auth)
        operations == transaction.operations
        with_auth ==
            IF first_result.auth # <<>>
               /\ Len(operations) >= 1
               /\ operations[1].body.type = "InvokeHostFunction"
            THEN [transaction EXCEPT !.operations[1].body.auth = auth_entries,
                                     !.operations[1].body.host_function.args = <<>>]
            ELSE transaction
        with_ext == [with_auth EXCEPT !.ext = soroban_ext(soroban_tx_data.val)]
        resource_fee == as_i64(simulation.min_resource_fee)
        sum == i64_add(FromNat(BASE_FEE, 4), resource_fee, overflow_checks)
    IN  IF ~soroban_tx_data.ok THEN Err("Failed to parse soroban transaction data")
        ELSE IF ~sum.ok THEN Panic
        ELSE Ok([with_ext EXCEPT !.fee = as_u32(sum.val)])

apply_simulation_to_transaction(transaction, simulation, overflow_checks) ==
    IF simulation.results = <<>> THEN Err("No simulation results found")
    ELSE IF simulation.transaction_data = EmptyString
    THEN Err("No transaction data in simulation response")
    ELSE
    LET first_result == Head(simulation.results)
        soroban_tx_data ==
            from_xdr_base64("SorobanTransactionData", simulation.transaction_data)
        auth_entries == filter_map_auth(first_result.auth)
        operations == transaction.operations
        with_auth ==
            IF first_result.auth # <<>>
               /\ Len(operations) >= 1
               /\ operations[1].body.type = "InvokeHostFunction"
            THEN [transaction EXCEPT !.operations[1].body.auth = auth_entries]
            ELSE transaction
        with_ext == [with_auth EXCEPT !.ext = soroban_ext(soroban_tx_data.val)]
        resource_fee == as_i64(simulation.min_resource_fee)
        sum == i64_add(FromNat(BASE_FEE, 4), resource_fee, overflow_checks)
    IN  IF ~soroban_tx_data.ok THEN Err("Failed to parse soroban transaction data")
        ELSE IF ~sum.ok THEN Panic
        ELSE Ok([with_ext EXCEPT !.fee = as_u32(sum.val)])

(***************************************************************************)
(* Ledger entries and the storage decoders                                 *)
(***************************************************************************)
LedgerEntryResult(data) == [xdr |-> XdrOf("LedgerEntryData", data)]

ContractData(val) == [type |-> "ContractData", val |-> val]

Trustline(balance) == [type |-> "Trustline", balance |-> balance]

\* response.entries.and_then(|e| e.into_iter().next())
first_entry(response) ==
    IF response.entries.some /\ response.entries.v # <<>>
    THEN Some(Head(response.entries.v))
    ELSE None

\* get_contract_instance, after get_ledger_entries has answered.
get_contract_instance(answer) ==
    IF ~answer.ok THEN answer
    ELSE IF ~first_entry(answer.val).some THEN Err("Contract instance entry not found")
    ELSE Ok(first_entry(answer.val).v)

\* The loop of parse_instance_storage_value: the first entry whose key is a
\* vector that starts with the symbol key_name.
RECURSIVE find_instance_key(_, _)
find_instance_key(storage_map, key_name) ==
    IF storage_map = <<>> THEN Err("Key not found in instance storage")
    ELSE LET map_entry == Head(storage_map)
         IN  IF /\ IsVecSome(map_entry.key)
                /\ map_entry.key.vec # <<>>
                /\ Head(map_entry.key.vec).t = "Symbol"
                /\ Head(map_entry.key.vec).sym = key_name
             THEN Ok(map_entry.val)
             ELSE find_instance_key(Tail(storage_map), key_name)

parse_instance_storage_value(entry, key_name) ==
    LET entry_data == from_xdr_base64("LedgerEntryData", entry.xdr)
    IN  IF ~entry_data.ok THEN Err("Failed to decode XDR")
        ELSE IF entry_data.val.type # "ContractData"
        THEN Err("Unexpected ledger entry structure")
        ELSE IF entry_data.val.val.t # "ContractInstance"
        THEN Err("Unexpected ledger entry structure")
        ELSE IF ~entry_data.val.val.storage.some
        THEN Err("ContractInstance has no storage map")
        ELSE find_instance_key(entry_data.val.val.storage.v, key_name)

\* get_block_index, after get_ledger_entries has answered.
get_block_index(answer) ==
    LET instance == get_contract_instance(answer)
        value == parse_instance_storage_value(instance.val, "FarmIndex")
    IN  IF ~instance.ok THEN instance
        ELSE IF ~value.ok THEN value
        ELSE IF value.val.t = "U32" THEN Ok(value.val.u32)
        ELSE Err("FarmIndex is not a U32 value")

get_block_info_index_or_default(answer) ==
    LET index == get_block_index(answer)
    IN  IF index.ok THEN index ELSE Ok(0)

\* get_block_info up to its second await: the block index from the instance.
get_block_info_index(answer) ==
    LET instance == get_contract_instance(answer)
        index_value == parse_instance_storage_value(instance.val, "FarmIndex")
    IN  IF ~instance.ok THEN instance
        ELSE IF ~index_value.ok THEN index_value
        ELSE IF index_value.val.t = "U32" THEN Ok(index_value.val.u32)
        ELSE Err("FarmIndex is not a U32 value")

\* get_ledger_entry, after get_ledger_entries has answered.
get_ledger_entry(answer) ==
    IF answer.ok THEN Ok(first_entry(answer.val)) ELSE Ok(None)

\* The loop of get_block_info over the Block map: the first `entropy` field
\* that is a byte string of 32 bytes.
RECURSIVE find_entropy(_)
find_entropy(map) ==
    IF map = <<>> THEN None
    ELSE LET entry == Head(map)
         IN  IF /\ entry.key.t = "Symbol"
                /\ entry.key.sym = "entropy"
                /\ entry.val.t = "Bytes"
                /\ entry.val.len = 32
             THEN Some(entry.val.bytes)
             ELSE find_entropy(Tail(map))

get_block_info_absent_is_error(block_index, answer) ==
    LET block_entry == get_ledger_entry(answer)
        entry_data == from_xdr_base64("LedgerEntryData", block_entry.val.v.xdr)
    IN  IF ~block_entry.ok THEN block_entry
        ELSE IF ~block_entry.val.some THEN Err("Block entry not found")
        ELSE IF ~entry_data.ok THEN entry_data
        ELSE IF entry_data.val.type # "ContractData"
        THEN Err("Ledger entry is not ContractData")
        ELSE IF ~IsMapSome(entry_data.val.val) THEN Err("Block is not a Map")
        ELSE Ok(<<block_index, find_entropy(entry_data.val.val.map)>>)

\* get_block_info, after the Block entry lookup has answered.
get_block_info(block_index, answer) ==
    LET block_entry == get_ledger_entry(answer)
        entry_data == from_xdr_base64("LedgerEntryData", block_entry.val.v.xdr)
    IN  IF ~block_entry.ok THEN block_entry
        ELSE IF ~block_entry.val.some THEN Ok(<<block_index, None>>)
        ELSE IF ~entry_data.ok THEN entry_data
        ELSE IF entry_data.val.type # "ContractData"
        THEN Err("Ledger entry is not ContractData")
        ELSE IF ~IsMapSome(entry_data.val.val) THEN Err("Block is not a Map")
        ELSE Ok(<<block_index, find_entropy(entry_data.val.val.map)>>)

find_zeros_direct_only(map) ==
    LET zeros == {i \in DOMAIN map : map[i].key = ScSymbol("zeros")}
        first == CHOOSE i \in zeros : \A j \in zeros : i <= j
    IN  IF zeros = {} THEN None
        ELSE IF map[first].val.t = "U32" THEN Some(map[first].val.u32)
        ELSE None

\* The loop of get_pail_data over the Pail map: the first `zeros` field
\* decides, whatever its shape.
RECURSIVE find_zeros(_)
find_zeros(map) ==
    IF map = <<>> THEN None
    ELSE LET entry == Head(map)
         IN  IF entry.key.t = "Symbol" /\ entry.key.sym = "zeros"
             THEN IF entry.val.t = "U32" THEN Some(entry.val.u32)
                  ELSE IF IsVecSome(entry.val) /\ entry.val.vec = <<>> THEN None
                  ELSE IF IsVecSome(entry.val) /\ Head(entry.val.vec).t = "U32"
                  THEN Some(Head(entry.val.vec).u32)
                  ELSE None
             ELSE find_zeros(Tail(map))

\* get_pail_data taking a missing Pail entry for a failure.
get_pail_data_absent_is_error(answer) ==
    LET entry == get_ledger_entry(answer)
        entry_data == from_xdr_base64("LedgerEntryData", entry.val.v.xdr)
        zeros_value == find_zeros(entry_data.val.val.map)
    IN  IF ~entry.ok THEN entry
        ELSE IF ~entry.val.some THEN Err("Pail entry not found")
        ELSE IF ~entry_data.ok THEN entry_data
        ELSE IF entry_data.val.type # "ContractData"
        THEN Err("Ledger entry is not ContractData")
        ELSE IF ~IsMapSome(entry_data.val.val) THEN Err("Pail value is not a Map")
        ELSE Ok(<<TRUE, zeros_value.some, IF zeros_value.some THEN zeros_value.v ELSE 0>>)

\* get_pail_data, after the Pail entry lookup has answered.
get_pail_data(answer) ==
    LET entry == get_ledger_entry(answer)
        entry_data == from_xdr_base64("LedgerEntryData", entry.val.v.xdr)
        zeros_value == find_zeros(entry_data.val.val.map)
    IN  IF ~entry.ok THEN entry
        ELSE IF ~entry.val.some THEN Ok(<<FALSE, FALSE, 0>>)
        ELSE IF ~entry_data.ok THEN entry_data
        ELSE IF entry_data.val.type # "ContractData"
        THEN Err("Ledger entry is not ContractData")
        ELSE IF ~IsMapSome(entry_data.val.val) THEN Err("Pail value is not a Map")
        ELSE Ok(<<TRUE, zeros_value.some, IF zeros_value.some THEN zeros_value.v ELSE 0>>)

\* has_planted, after the Pail entry lookup has answered.
has_planted(answer) ==
    LET entry == get_ledger_entry(answer)
    IN  IF ~entry.ok THEN entry ELSE Ok(entry.val.some)

temporary_key_persistent(fields) ==
    [type |-> "ContractData", contract |-> contract_id, key |-> ScVec(fields),
     durability |-> "Persistent"]

\* The storage key of a temporary entry of the contract.
temporary_key(fields) ==
    [type |-> "ContractData", contract |-> contract_id, key |-> ScVec(fields),
     durability |-> "Temporary"]

instance_key ==
    [type |-> "ContractData", contract |-> contract_id,
     key |-> [t |-> "LedgerKeyContractInstance"], durability |-> "Persistent"]

farmer_address_of_any_key(farmer_public_key) ==
    LET farmer_strkey == Strkey_from_string(farmer_public_key)
    IN  IF ~farmer_strkey.ok THEN farmer_strkey
        ELSE Ok(ScAddressAccount(farmer_strkey.val.key))

\* farmer public key text -> ScAddress::Account, as every caller spells it.
farmer_address(farmer_public_key) ==
    LET farmer_strkey == Strkey_from_string(farmer_public_key)
    IN  IF ~farmer_strkey.ok THEN farmer_strkey
        ELSE IF farmer_strkey.val.kind # "PublicKeyEd25519"
        THEN Err("Invalid farmer public key type")
        ELSE Ok(ScAddressAccount(farmer_strkey.val.key))

\* The asset code of a trustline: 4 or 12 bytes, zero-padded on the right.
pad_take(code, n) == SubSeq(code \o [i \in 1..n |-> 0], 1, n)

trust_line_asset(asset_code, issuer_id) ==
    IF Len(asset_code) <= 4
    THEN [type |-> "CreditAlphanum4", asset_code |-> pad_take(asset_code, 4),
          issuer |-> issuer_id]
    ELSE [type |-> "CreditAlphanum12", asset_code |-> pad_take(asset_code, 12),
          issuer |-> issuer_id]

\* check_trustline_and_balance up to its await: the key it looks up.
trustline_key(account_address, asset_code, asset_issuer) ==
    LET account_strkey == Strkey_from_string(account_address)
        issuer_strkey == Strkey_from_string(asset_issuer)
    IN  IF ~account_strkey.ok THEN Err("Failed to parse account address")
        ELSE IF ~issuer_strkey.ok THEN Err("Failed to parse issuer address")
        ELSE IF account_strkey.val.kind # "PublicKeyEd25519"
        THEN Err("Invalid account key type")
        ELSE IF issuer_strkey.val.kind # "PublicKeyEd25519"
        THEN Err("Invalid issuer key type")
        ELSE Ok([type |-> "Trustline", account_id |-> account_strkey.val.key,
                 asset |-> trust_line_asset(asset_code, issuer_strkey.val.key)])

\* check_trustline_and_balance taking an entry of any kind for the trustline.
check_trustline_any_entry(answer) ==
    LET entry == first_entry(answer.val)
        entry_data == from_xdr_base64("LedgerEntryData", entry.v.xdr)
    IN  IF ~answer.ok THEN Ok(<<FALSE, 0>>)
        ELSE IF ~entry.some THEN Ok(<<FALSE, 0>>)
        ELSE IF ~entry_data.ok THEN entry_data
        ELSE IF entry_data.val.type = "Trustline"
        THEN Ok(<<TRUE, entry_data.val.balance>>)
        ELSE Ok(<<TRUE, 0>>)

\* check_trustline_and_balance, after get_ledger_entries has answered.
check_trustline_and_balance(answer) ==
    LET entry == first_entry(answer.val)
        entry_data == from_xdr_base64("LedgerEntryData", entry.v.xdr)
    IN  IF ~answer.ok THEN Ok(<<FALSE, 0>>)
        ELSE IF ~entry.some THEN Ok(<<FALSE, 0>>)
        ELSE IF ~entry_data.ok THEN entry_data
        ELSE IF entry_data.val.type = "Trustline"
        THEN Ok(<<TRUE, entry_data.val.balance>>)
        ELSE Ok(<<FALSE, 0>>)

\* get_xlm_balance, after get_account has answered.
get_xlm_balance(answer) ==
    IF answer.ok THEN Ok(Some(answer.val.balance)) ELSE Ok(None)

\* simulate_transaction, after the transport has answered.
simulate_transaction(answer) ==
    IF answer.ok THEN answer ELSE Err("Failed to simulate transaction")

(***************************************************************************)
(* The transport's answers and the callers' inputs.                        *)
(***************************************************************************)
(***************************************************************************)
(* calculate_work_hash                                                     *)
(***************************************************************************)
\* The bytes behind the byte strings and keys the model names by a label.
BytesOf(label) ==
    CASE label = "e1" -> [i \in 1..32 |-> i]
      [] label = "e2" -> [i \in 1..32 |-> 100 + i]
      [] label = "e3" -> [i \in 1..32 |-> 200 + i]
      [] label = "short" -> [i \in 1..31 |-> i]
      [] label = "A" -> [i \in 1..32 |-> 64 + i]
      [] label = "B" -> [i \in 1..32 |-> 128 + i]
      [] label = "I" -> [i \in 1..32 |-> 160 + i]

\* u32::to_be_bytes
u32_to_be_bytes(n) ==
    <<n \div 16777216, (n \div 65536) % 256, (n \div 256) % 256, n % 256>>

\* u64::to_be_bytes, of a u64 in limbs
u64_to_be_bytes(x) ==
    <<x[4] \div 256, x[4] % 256, x[3] \div 256, x[3] % 256,
      x[2] \div 256, x[2] % 256, x[1] \div 256, x[1] % 256>>

\* ScAddress::to_xdr of an account address: the address type (0, account),
\* the public key type (0, Ed25519), the 32 bytes of the key.
ScAddress_to_xdr(address) ==
    <<0, 0, 0, 0>> \o <<0, 0, 0, 0>> \o BytesOf(address.key)

\* &farmer_xdr[farmer_xdr.len() - 32..]
last_32_bytes(xdr) == SubSeq(xdr, Len(xdr) - 31, Len(xdr))

hash_input_little_endian(block_index, nonce, entropy, farmer_bytes) ==
    LET be == u32_to_be_bytes(block_index)
    IN  <<be[4], be[3], be[2], be[1]>> \o u64_to_be_bytes(nonce) \o entropy \o farmer_bytes

\* The 76 bytes that are hashed.
hash_input(block_index, nonce, entropy, farmer_bytes) ==
    u32_to_be_bytes(block_index) \o u64_to_be_bytes(nonce) \o entropy \o farmer_bytes

\* Keccak256, as the digest of its input.
Keccak256(input) == [keccak256 |-> input]

calculate_work_hash_default_entropy(block_info, farmer_public_key, nonce) ==
    LET address == farmer_address(farmer_public_key)
        entropy == IF block_info.val[2].some THEN BytesOf(block_info.val[2].v)
                   ELSE [i \in 1..32 |-> 0]
    IN  IF ~block_info.ok THEN block_info
        ELSE IF ~address.ok THEN address
        ELSE Ok(Keccak256(hash_input(block_info.val[1], nonce, entropy,
                                     last_32_bytes(ScAddress_to_xdr(address.val)))))

\* calculate_work_hash, after get_block_info has returned block_info.
calculate_work_hash(block_info, farmer_public_key, nonce) ==
    LET address == farmer_address(farmer_public_key)
    IN  IF ~block_info.ok THEN block_info
        ELSE IF ~block_info.val[2].some
        THEN Err("Cannot calculate work hash - nobody has planted in this block yet")
        ELSE IF ~address.ok THEN address
        ELSE Ok(Keccak256(hash_input(block_info.val[1], nonce,
                                     BytesOf(block_info.val[2].v),
                                     last_32_bytes(ScAddress_to_xdr(address.val)))))

\* nonce: u64, here 1 and 0x0102030405060708
Nonces == {FromNat(1, 4), <<1800, 1286, 772, 258>>}

(***************************************************************************)
(* prepare_plant_transaction / prepare_work_transaction /                  *)
(* prepare_harvest_transaction                                             *)
(***************************************************************************)
ScI128(parts) == [t |-> "I128", hi |-> parts.hi, lo |-> parts.lo]

\* amount >> 64 of an i128 in eight limbs: the shift is arithmetic, the sign
\* fills the upper half.
i128_shr_64(amount) ==
    SubSeq(amount, 5, 8) \o [i \in 1..4 |-> IF amount[8] >= 32768 THEN Limb - 1 ELSE 0]

\* amount & 0xFFFFFFFFFFFFFFFF
i128_and_low_64(amount) == [i \in 1..8 |-> IF i <= 4 THEN amount[i] ELSE 0]

\* `as i64` / `as u64` of an i128: the low 64 bits.
i128_as_64(x) == SubSeq(x, 1, 4)

int128_parts_low_word_only(amount) ==
    [hi |-> i128_as_64(i128_shr_64(amount)),
     lo |-> SubSeq(amount, 1, 2) \o <<0, 0>>]

\* Int128Parts { hi: (amount >> 64) as i64, lo: (amount & 0xFFFFFFFFFFFFFFFF) as u64 }
int128_parts(amount) ==
    [hi |-> i128_as_64(i128_shr_64(amount)),
     lo |-> i128_as_64(i128_and_low_64(amount))]

plant_args(address, amount) == <<address, ScI128(int128_parts(amount))>>

work_args(address, hash, nonce) == <<address, ScBytes(32, hash), ScU64(nonce)>>

harvest_args(address, block_index) == <<address, ScU32(block_index)>>

\* TransactionEnvelope::Tx(TransactionV1Envelope { tx, signatures: default })
unsigned_envelope(transaction) == [tx |-> transaction, signatures |-> <<>>]

\* The tail of a prepare function without its check of the simulation's
\* error field.
prepare_after_simulate_unchecked(transaction, simulate_answer, overflow_checks) ==
    LET simulation == simulate_transaction(simulate_answer)
        applied == apply_simulation_to_transaction(transaction, simulation.val,
                                                   overflow_checks)
    IN  IF ~simulation.ok THEN simulation
        ELSE IF ~applied.ok THEN applied
        ELSE Ok(XdrOf("TransactionEnvelope", unsigned_envelope(applied.val)))

\* The common tail of the three prepare functions, after simulate_transaction
\* has been answered.
prepare_after_simulate(transaction, simulate_answer, overflow_checks) ==
    LET simulation == simulate_transaction(simulate_answer)
        applied == apply_simulation_to_transaction(transaction, simulation.val,
                                                   overflow_checks)
    IN  IF ~simulation.ok THEN simulation
        ELSE IF simulation.val.error # "None"
        THEN Err("Transaction simulation failed")
        ELSE IF ~applied.ok THEN applied
        ELSE Ok(XdrOf("TransactionEnvelope", unsigned_envelope(applied.val)))

\* amount: i128, in eight limbs: 1000, -1, 2^64, a negative amount whose low
\* half has its top bit set, i128::MIN.
Amounts ==
    {FromNat(1000, 8),
     <<Limb - 1, Limb - 1, Limb - 1, Limb - 1, Limb - 1, Limb - 1, Limb - 1, Limb - 1>>,
     <<0, 0, 0, 0, 1, 0, 0, 0>>,
     <<5, 0, 0, 32768, Limb - 1, Limb - 1, Limb - 1, Limb - 1>>,
     <<0, 0, 0, 0, 0, 0, 0, 32768>>}

\* The simulation responses the prepare functions are run against.
PrepareSimulateAnswers ==
    {Err("transport error")}
    \cup {Ok(sim) : sim \in
            [error : {"None", "x"},
             results : {<<>>, <<[auth |-> <<>>]>>,
                        <<[auth |-> <<XdrOf("SorobanAuthorizationEntry", "a1")>>]>>},
             transaction_data : {EmptyString,
                                 XdrOf("SorobanTransactionData",
                                       [resources |-> "r1", resource_fee |-> 10])},
             min_resource_fee : {FromNat(500, 4), <<Limb - 100, Limb - 1, 0, 0>>}]}

(***************************************************************************)
(* build_add_trustline_transaction                                         *)
(***************************************************************************)
\* The ChangeTrustAsset of the operation: 4 or 12 bytes of asset code.
change_trust_asset(asset_code, issuer_id) ==
    IF Len(asset_code) <= 4
    THEN [type |-> "CreditAlphanum4", asset_code |-> pad_take(asset_code, 4),
          issuer |-> issuer_id]
    ELSE [type |-> "CreditAlphanum12", asset_code |-> pad_take(asset_code, 12),
          issuer |-> issuer_id]

\* build_add_trustline_transaction up to its await: the two addresses.
add_trustline_keys(source_account, asset_issuer) ==
    LET source_strkey == Strkey_from_string(source_account)
        issuer_strkey == Strkey_from_string(asset_issuer)
    IN  IF ~source_strkey.ok THEN Err("Failed to parse source account")
        ELSE IF source_strkey.val.kind # "PublicKeyEd25519"
        THEN Err("Invalid source account key type")
        ELSE IF ~issuer_strkey.ok THEN Err("Failed to parse issuer address")
        ELSE IF issuer_strkey.val.kind # "PublicKeyEd25519"
        THEN Err("Invalid issuer key type")
        ELSE Ok([source_public_key |-> source_strkey.val,
                 issuer_id |-> issuer_strkey.val.key])

\* build_add_trustline_transaction, after get_account has answered.
build_add_trustline_transaction(keys, asset_code, account_response, overflow_checks) ==
    LET sequence == i64_add(account_response.val.seq_num, FromNat(1, 4), overflow_checks)
    IN  IF ~account_response.ok THEN account_response
        ELSE IF ~sequence.ok THEN Panic
        ELSE Ok([source_account |-> [type |-> "Ed25519", key |-> keys.source_public_key.key],
                 fee |-> FromNat(PLACEHOLDER_FEE, 2),
                 seq_num |-> sequence.val,
                 cond |-> "None",
                 memo |-> "None",
                 operations |->
                   << [source_account |-> "None",
                       body |-> [type |-> "ChangeTrust",
                                 line |-> change_trust_asset(asset_code, keys.issuer_id),
                                 limit |-> I64_MAX]] >>,
                 ext |-> [v |-> 0]])

MaxStorage == 2

MaxFields == 2

SeqNums == {FromNat(5, 4), <<Limb - 1, Limb - 1, 0, 0>>, I64_MAX}

AccountResponses ==
    {Err("NotFound"), Err("transport error")}
    \cup {Ok([seq_num |-> s, balance |-> b]) : s \in SeqNums, b \in {0, 7}}

FunctionNames == {"plant", "work", LongName}

ArgLists == {<<>>, <<ScAddressAccount("A"), ScU32(5)>>}

\* min_resource_fee is a u64: 500, 2500, 2^32 - 101, 2^32 - 100, 2^63 - 1, 2^64 - 1.
MinResourceFees ==
    {FromNat(500, 4), FromNat(2500, 4),
     <<Limb - 101, Limb - 1, 0, 0>>, <<Limb - 100, Limb - 1, 0, 0>>,
     I64_MAX, <<Limb - 1, Limb - 1, Limb - 1, Limb - 1>>}

TransactionDatas ==
    {EmptyString, Garbage}
    \cup {XdrOf("SorobanTransactionData", d) :
            d \in {[resources |-> "r1", resource_fee |-> 10],
                   [resources |-> "r2", resource_fee |-> 20]}}

ResultLists ==
    {<<>>} \cup {<<[auth |-> a]>> : a \in AuthLists}
    \cup {<<[auth |-> <<XdrOf("SorobanAuthorizationEntry", "a1")>>],
            [auth |-> <<XdrOf("SorobanAuthorizationEntry", "a2")>>]>>}

Simulations ==
    [error : {"None", "x"},
     results : ResultLists,
     transaction_data : TransactionDatas,
     min_resource_fee : MinResourceFees]

SimulateAnswers == {Err("transport error")} \cup {Ok(sim) : sim \in Simulations}

\* Responses of a further simulation, of a transaction apply has returned.
Resimulations ==
    [error : {"None"},
     results : {<<[auth |-> <<>>]>>, <<[auth |-> <<XdrOf("SorobanAuthorizationEntry", "a2")>>]>>},
     transaction_data : {XdrOf("SorobanTransactionData", [resources |-> "r1", resource_fee |-> 10])},
     min_resource_fee : {FromNat(500, 4)}]

LedgerEntriesAnswers(entries) ==
    {Err("transport error"), Ok([entries |-> None]), Ok([entries |-> Some(<<>>)])}
    \cup {Ok([entries |-> Some(<<e>>)]) : e \in entries}

FarmIndexKey == ScVec(<<ScSymbol("FarmIndex")>>)

StorageEntries ==
    {[key |-> FarmIndexKey, val |-> ScU32(42)],
     [key |-> FarmIndexKey, val |-> ScU32(7)],
     [key |-> FarmIndexKey, val |-> ScU64(42)],
     [key |-> ScVec(<<ScSymbol("FarmBlock")>>), val |-> ScU32(9)],
     [key |-> ScSymbol("FarmIndex"), val |-> ScU32(3)],
     [key |-> ScVec(<<>>), val |-> ScU32(4)]}

InstanceStorages == UNION {[1..n -> StorageEntries] : n \in 0..MaxStorage}

InstanceEntries ==
    {LedgerEntryResult(ContractData(ScContractInstance(Some(m)))) : m \in InstanceStorages}
    \cup {LedgerEntryResult(ContractData(ScContractInstance(None))),
          LedgerEntryResult(ContractData(ScU32(42))),
          LedgerEntryResult(Trustline(0)),
          [xdr |-> Garbage]}

\* The instance entries whose storage holds at most one entry: the answers
\* to the first lookup of calculate_work_hash and prepare_work_transaction,
\* which read nothing of the instance but the block index.  Longer storages
\* are decoded under get_block_index, has_planted and get_block_info.
SingleInstanceEntries ==
    {LedgerEntryResult(ContractData(ScContractInstance(Some(m)))) :
        m \in {<<>>} \cup {<<e>> : e \in StorageEntries}}
    \cup {LedgerEntryResult(ContractData(ScContractInstance(None))),
          LedgerEntryResult(ContractData(ScU32(42))),
          LedgerEntryResult(Trustline(0)),
          [xdr |-> Garbage]}

BlockFields ==
    {[key |-> ScSymbol("entropy"), val |-> ScBytes(32, "e1")],
     [key |-> ScSymbol("entropy"), val |-> ScBytes(32, "e2")],
     [key |-> ScSymbol("entropy"), val |-> ScBytes(31, "short")],
     [key |-> ScSymbol("entropy"), val |-> ScU32(5)],
     [key |-> ScSymbol("timestamp"), val |-> ScU64(1)],
     [key |-> ScU32(1), val |-> ScBytes(32, "e3")]}

BlockEntries ==
    {LedgerEntryResult(ContractData(ScMap(m))) :
        m \in UNION {[1..n -> BlockFields] : n \in 0..MaxFields}}
    \cup {LedgerEntryResult(ContractData(ScMapNone)),
          LedgerEntryResult(ContractData(ScU32(1))),
          LedgerEntryResult(Trustline(0)),
          [xdr |-> Garbage]}

PailFields ==
    {[key |-> ScSymbol("zeros"), val |-> ScU32(3)],
     [key |-> ScSymbol("zeros"), val |-> ScVec(<<>>)],
     [key |-> ScSymbol("zeros"), val |-> ScVec(<<ScU32(3)>>)],
     [key |-> ScSymbol("zeros"), val |-> ScVec(<<ScSymbol("x")>>)],
     [key |-> ScSymbol("zeros"), val |-> ScVec(<<ScU32(3), ScU32(4)>>)],
     [key |-> ScSymbol("zeros"), val |-> ScVoid],
     [key |-> ScSymbol("zeros"), val |-> ScVecNone],
     [key |-> ScSymbol("stake"), val |-> ScU64(1)]}

PailEntries ==
    {LedgerEntryResult(ContractData(ScMap(m))) :
        m \in UNION {[1..n -> PailFields] : n \in 0..MaxFields}}
    \cup {LedgerEntryResult(ContractData(ScMapNone)),
          LedgerEntryResult(ContractData(ScU32(1))),
          LedgerEntryResult(Trustline(0)),
          [xdr |-> Garbage]}

TrustlineEntries ==
    {LedgerEntryResult(Trustline(0)), LedgerEntryResult(Trustline(70)),
     LedgerEntryResult(ContractData(ScVoid)), [xdr |-> Garbage]}

\* "KALE", "USD", "USDC1" and a code of 13 bytes, as byte values.
KALE_ASSET_CODE == <<75, 65, 76, 69>>

AssetCodes ==
    {KALE_ASSET_CODE, <<85, 83, 68>>, <<85, 83, 68, 67, 49>>,
     <<65, 66, 67, 68, 69, 70, 71, 72, 73, 74, 75, 76, 77>>}

KALE_ISSUER == "GI"

BlockIndexes == {7, 42}

(***************************************************************************)
(* Bookkeeping of a call: its start, its transport requests, its return.   *)
(***************************************************************************)
Answered(l, outcome) == [l EXCEPT ![Len(l)].outcome = outcome]

\* How an answer of get_account / simulate reads: ok, absent, transport error.
Outcome(a) ==
    IF a.ok THEN "ok"
    ELSE IF a.err = "transport error" THEN "transport error" ELSE "absent"

\* How an answer of get_ledger_entries reads.
EntriesOutcome(a) ==
    IF ~a.ok THEN "transport error"
    ELSE IF first_entry(a.val).some THEN "ok" ELSE "absent"

\* No call is running and none has returned: the caller may start one.
Fresh == pc = "idle"

\* The first segment of a call, whoever makes it.
Begin(c) ==
    /\ call' = c
    /\ lastAnswer' = NoAnswer
    /\ UNCHANGED <<held, heldSim>>

Start(c) ==
    /\ Fresh
    /\ Begin(c)
    /\ UNCHANGED outside

Return(r) ==
    /\ ret' = r
    /\ pc' = "returned"

Await(at, locals, requests) ==
    /\ pc' = at
    /\ frame' = locals
    /\ log' = requests
    /\ ret' = NoRet

\* The caller is done with the returned call (and with the draft and the
\* simulation response it held).
Forget ==
    /\ pc = "returned"
    /\ pc' = "idle"
    /\ call' = NoCall
    /\ ret' = NoRet
    /\ log' = <<>>
    /\ lastAnswer' = NoAnswer
    /\ held' = NoTx
    /\ heldSim' = NoSim
    /\ frame' = NoFrame
    /\ UNCHANGED outside

(***************************************************************************)
(* Actions: build_invoke_transaction                                       *)
(***************************************************************************)
BuildCall(source_account, function_name, args) ==
    /\ Start([op |-> "build_invoke_transaction", source_account |-> source_account,
              function_name |-> function_name, args |-> args])
    /\ LET source_strkey == Strkey_from_string(source_account)
       IN  IF ~source_strkey.ok
           THEN Return(Err("Failed to parse source account")) /\ UNCHANGED <<log, frame>>
           ELSE IF source_strkey.val.kind # "PublicKeyEd25519"
           THEN Return(Err("Invalid source account key type")) /\ UNCHANGED <<log, frame>>
           ELSE Await("build:get_account",
                      [source_public_key |-> source_strkey.val],
                      build_requests(source_account))

BuildGetAccount(account_response, overflow_checks) ==
    /\ pc = "build:get_account"
    /\ log' = Answered(log, Outcome(account_response))
    /\ lastAnswer' = account_response
    /\ LET r == build_after_get_account(frame.source_public_key, call.function_name,
                                        call.args, account_response, overflow_checks)
       IN  /\ Return(r)
           /\ held' = IF r.ok THEN r.val ELSE NoTx
    /\ UNCHANGED <<call, heldSim, frame>>
    /\ UNCHANGED outside

(***************************************************************************)
(* Actions: simulate_transaction, on the draft the caller holds            *)
(***************************************************************************)
SimulateCall ==
    /\ pc = "returned"
    /\ held # NoTx
    /\ heldSim = NoSim
    /\ call' = [op |-> "simulate_transaction", transaction |-> held]
    /\ lastAnswer' = NoAnswer
    /\ Await("simulate:await", NoFrame,
             <<Request("simulateTransaction", [tx |-> held, signatures |-> <<>>])>>)
    /\ UNCHANGED <<held, heldSim>>
    /\ UNCHANGED outside

SimulateReturn(a) ==
    /\ pc = "simulate:await"
    /\ log' = Answered(log, Outcome(a))
    /\ lastAnswer' = a
    /\ Return(simulate_transaction(a))
    /\ heldSim' = IF a.ok THEN a.val ELSE NoSim
    /\ UNCHANGED <<call, held, frame>>
    /\ UNCHANGED outside

(***************************************************************************)
(* Action: apply_simulation_to_transaction, on the draft and the           *)
(* simulation response the caller holds.  The function is synchronous (no  *)
(* transport request) and takes the transaction by value: the draft is     *)
(* moved into the call and what the caller has afterwards is the returned  *)
(* value.                                                                  *)
(***************************************************************************)
Apply(overflow_checks) ==
    /\ pc = "returned"
    /\ held # NoTx
    /\ heldSim # NoSim
    /\ call' = [op |-> "apply_simulation_to_transaction", transaction |-> held,
                simulation |-> heldSim]
    /\ log' = <<>>
    /\ lastAnswer' = NoAnswer
    /\ Return(apply_simulation_to_transaction(held, heldSim, overflow_checks))
    /\ held' = NoTx
    /\ heldSim' = NoSim
    /\ UNCHANGED frame
    /\ UNCHANGED outside

\* apply_simulation_to_transaction once more, on the transaction the previous
\* apply returned (it carries the authorization list that apply gave it) and
\* the response of a further simulation.
Reapply(simulation, overflow_checks) ==
    /\ pc = "returned"
    /\ call.op = "apply_simulation_to_transaction"
    /\ ret.ok
    /\ call' = [op |-> "apply_simulation_to_transaction", transaction |-> ret.val,
                simulation |-> simulation]
    /\ Return(apply_simulation_to_transaction(ret.val, simulation, overflow_checks))
    /\ UNCHANGED <<log, lastAnswer, held, heldSim, frame>>
    /\ UNCHANGED outside

(***************************************************************************)
(* Actions: the storage queries                                            *)
(***************************************************************************)
GetBlockIndexCall ==
    /\ Start([op |-> "get_block_index"])
    /\ Await("get_block_index:instance", NoFrame,
             <<Request("getLedgerEntries", instance_key)>>)

GetBlockIndexReturn(a) ==
    /\ pc = "get_block_index:instance"
    /\ log' = Answered(log, EntriesOutcome(a))
    /\ lastAnswer' = a
    /\ Return(get_block_index(a))
    /\ UNCHANGED <<call, held, heldSim, frame>>
    /\ UNCHANGED outside

HasPlantedCall(farmer_public_key) ==
    /\ Start([op |-> "has_planted", farmer_public_key |-> farmer_public_key])
    /\ Await("has_planted:instance", NoFrame,
             <<Request("getLedgerEntries", instance_key)>>)

HasPlantedInstance(a) ==
    /\ pc = "has_planted:instance"
    /\ lastAnswer' = a
    /\ LET block_index == get_block_index(a)
           address == farmer_address(call.farmer_public_key)
           answered == Answered(log, EntriesOutcome(a))
       IN  IF ~block_index.ok
           THEN Return(block_index) /\ log' = answered /\ UNCHANGED frame
           ELSE IF ~address.ok
           THEN Return(address) /\ log' = answered /\ UNCHANGED frame
           ELSE Await("has_planted:pail",
                      [block_index |-> block_index.val],
                      Append(answered,
                             Request("getLedgerEntries",
                                     temporary_key(<<ScSymbol("Pail"), address.val,
                                                     ScU32(block_index.val)>>))))
    /\ UNCHANGED <<call, held, heldSim>>
    /\ UNCHANGED outside

HasPlantedPail(a) ==
    /\ pc = "has_planted:pail"
    /\ log' = Answered(log, EntriesOutcome(a))
    /\ lastAnswer' = a
    /\ Return(has_planted(a))
    /\ UNCHANGED <<call, held, heldSim, frame>>
    /\ UNCHANGED outside

GetBlockInfoCall ==
    /\ Start([op |-> "get_block_info"])
    /\ Await("get_block_info:instance", NoFrame,
             <<Request("getLedgerEntries", instance_key)>>)

GetBlockInfoInstance(a) ==
    /\ pc = "get_block_info:instance"
    /\ lastAnswer' = a
    /\ LET block_index == get_block_info_index(a)
           answered == Answered(log, EntriesOutcome(a))
       IN  IF ~block_index.ok
           THEN Return(block_index) /\ log' = answered /\ UNCHANGED frame
           ELSE Await("get_block_info:block",
                      [block_index |-> block_index.val, instance |-> a],
                      Append(answered,
                             Request("getLedgerEntries",
                                     temporary_key(<<ScSymbol("Block"),
                                                     ScU32(block_index.val)>>))))
    /\ UNCHANGED <<call, held, heldSim>>
    /\ UNCHANGED outside

GetBlockInfoBlockLatestIndex(a) ==
    /\ pc = "get_block_info:block"
    /\ log' = Answered(log, EntriesOutcome(a))
    /\ lastAnswer' = a
    /\ Return(get_block_info(ledger.farm_index, a))
    /\ UNCHANGED <<call, held, heldSim, frame>>
    /\ UNCHANGED outside

GetBlockInfoBlock(a) ==
    /\ pc = "get_block_info:block"
    /\ log' = Answered(log, EntriesOutcome(a))
    /\ lastAnswer' = a
    /\ Return(get_block_info(frame.block_index, a))
    /\ UNCHANGED <<call, held, heldSim, frame>>
    /\ UNCHANGED outside

GetPailDataBegin(farmer_public_key, block_index) ==
    /\ Begin([op |-> "get_pail_data", farmer_public_key |-> farmer_public_key,
              block_index |-> block_index])
    /\ LET address == farmer_address(farmer_public_key)
       IN  IF ~address.ok THEN Return(address) /\ log' = <<>> /\ frame' = NoFrame
           ELSE Await("get_pail_data:pail", NoFrame,
                      <<Request("getLedgerEntries",
                                temporary_key(<<ScSymbol("Pail"), address.val,
                                                ScU32(block_index)>>))>>)

GetPailDataCall(farmer_public_key, block_index) ==
    /\ Fresh
    /\ GetPailDataBegin(farmer_public_key, block_index)
    /\ UNCHANGED outside

GetPailDataReturn(a) ==
    /\ pc = "get_pail_data:pail"
    /\ log' = Answered(log, EntriesOutcome(a))
    /\ lastAnswer' = a
    /\ Return(get_pail_data(a))
    /\ UNCHANGED <<call, held, heldSim, frame>>
    /\ UNCHANGED outside

CalculateWorkHashCall(farmer_public_key, nonce) ==
    /\ Start([op |-> "calculate_work_hash", farmer_public_key |-> farmer_public_key,
              nonce |-> nonce])
    /\ Await("calculate_work_hash:instance", NoFrame,
             <<Request("getLedgerEntries", instance_key)>>)

CalculateWorkHashInstance(a) ==
    /\ pc = "calculate_work_hash:instance"
    /\ lastAnswer' = a
    /\ LET block_index == get_block_info_index(a)
           answered == Answered(log, EntriesOutcome(a))
       IN  IF ~block_index.ok
           THEN Return(block_index) /\ log' = answered /\ UNCHANGED frame
           ELSE Await("calculate_work_hash:block",
                      [block_index |-> block_index.val],
                      Append(answered,
                             Request("getLedgerEntries",
                                     temporary_key(<<ScSymbol("Block"),
                                                     ScU32(block_index.val)>>))))
    /\ UNCHANGED <<call, held, heldSim>>
    /\ UNCHANGED outside

CalculateWorkHashBlock(a) ==
    /\ pc = "calculate_work_hash:block"
    /\ log' = Answered(log, EntriesOutcome(a))
    /\ lastAnswer' = a
    /\ Return(calculate_work_hash(get_block_info(frame.block_index, a),
                                  call.farmer_public_key, call.nonce))
    /\ UNCHANGED <<call, held, heldSim, frame>>
    /\ UNCHANGED outside

(***************************************************************************)
(* Actions: the prepare functions.  Each runs its own checks and lookups,  *)
(* then build_invoke_transaction, simulate_transaction and                 *)
(* apply_simulation_to_transaction in that order.                          *)
(***************************************************************************)
\* The call of build_invoke_transaction inside a prepare function, up to
\* its get_account; l is the log so far.
PrepareBuild(l, source_account, function_name, args) ==
    LET source_strkey == Strkey_from_string(source_account)
    IN  IF ~source_strkey.ok
        THEN Return(Err("Failed to parse source account")) /\ log' = l /\ UNCHANGED frame
        ELSE IF source_strkey.val.kind # "PublicKeyEd25519"
        THEN Return(Err("Invalid source account key type")) /\ log' = l /\ UNCHANGED frame
        ELSE Await("prepare:get_account",
                   [source_public_key |-> source_strkey.val,
                    function_name |-> function_name, args |-> args],
                   l \o build_requests(source_account))

PreparePlantBegin(farmer_public_key, amount) ==
    /\ Begin([op |-> "prepare_plant_transaction", farmer_public_key |-> farmer_public_key,
              amount |-> amount])
    /\ LET key == trustline_key(farmer_public_key, KALE_ASSET_CODE, KALE_ISSUER)
       IN  IF ~key.ok THEN Return(key) /\ log' = <<>> /\ frame' = NoFrame
           ELSE Await("prepare_plant:trustline", NoFrame,
                      <<Request("getLedgerEntries", key.val)>>)

PreparePlantCall(farmer_public_key, amount) ==
    /\ Fresh
    /\ PreparePlantBegin(farmer_public_key, amount)
    /\ UNCHANGED outside

PreparePlantTrustline(a) ==
    /\ pc = "prepare_plant:trustline"
    /\ lastAnswer' = a
    /\ LET trustline == check_trustline_and_balance(a)
           address == farmer_address(call.farmer_public_key)
           answered == Answered(log, EntriesOutcome(a))
       IN  IF ~trustline.ok
           THEN Return(trustline) /\ log' = answered /\ UNCHANGED frame
           ELSE IF ~trustline.val[1]
           THEN Return(Err("Account does not have a trustline"))
                /\ log' = answered /\ UNCHANGED frame
           ELSE IF ~address.ok
           THEN Return(address) /\ log' = answered /\ UNCHANGED frame
           ELSE PrepareBuild(answered, call.farmer_public_key, "plant",
                             plant_args(address.val, call.amount))
    /\ UNCHANGED <<call, held, heldSim>>
    /\ UNCHANGED outside

PrepareWorkBegin(farmer_public_key, nonce) ==
    /\ Begin([op |-> "prepare_work_transaction", farmer_public_key |-> farmer_public_key,
              nonce |-> nonce])
    /\ Await("prepare_work:instance", NoFrame,
             <<Request("getLedgerEntries", instance_key)>>)

PrepareWorkCall(farmer_public_key, nonce) ==
    /\ Fresh
    /\ PrepareWorkBegin(farmer_public_key, nonce)
    /\ UNCHANGED outside

PrepareWorkInstance(a) ==
    /\ pc = "prepare_work:instance"
    /\ lastAnswer' = a
    /\ LET block_index == get_block_info_index(a)
           answered == Answered(log, EntriesOutcome(a))
       IN  IF ~block_index.ok
           THEN Return(block_index) /\ log' = answered /\ UNCHANGED frame
           ELSE Await("prepare_work:block",
                      [block_index |-> block_index.val],
                      Append(answered,
                             Request("getLedgerEntries",
                                     temporary_key(<<ScSymbol("Block"),
                                                     ScU32(block_index.val)>>))))
    /\ UNCHANGED <<call, held, heldSim>>
    /\ UNCHANGED outside

PrepareWorkBlock(a) ==
    /\ pc = "prepare_work:block"
    /\ lastAnswer' = a
    /\ LET hash == calculate_work_hash(get_block_info(frame.block_index, a),
                                       call.farmer_public_key, call.nonce)
           address == farmer_address(call.farmer_public_key)
           answered == Answered(log, EntriesOutcome(a))
       IN  IF ~hash.ok
           THEN Return(hash) /\ log' = answered /\ UNCHANGED frame
           ELSE IF ~address.ok
           THEN Return(address) /\ log' = answered /\ UNCHANGED frame
           ELSE PrepareBuild(answered, call.farmer_public_key, "work",
                             work_args(address.val, hash.val, call.nonce))
    /\ UNCHANGED <<call, held, heldSim>>
    /\ UNCHANGED outside

PrepareHarvestBegin(farmer_public_key, block_index) ==
    /\ Begin([op |-> "prepare_harvest_transaction", farmer_public_key |-> farmer_public_key,
              block_index |-> block_index])
    /\ LET address == farmer_address(farmer_public_key)
       IN  IF ~address.ok THEN Return(address) /\ log' = <<>> /\ frame' = NoFrame
           ELSE PrepareBuild(<<>>, farmer_public_key, "harvest",
                             harvest_args(address.val, block_index))

PrepareHarvestCall(farmer_public_key, block_index) ==
    /\ Fresh
    /\ PrepareHarvestBegin(farmer_public_key, block_index)
    /\ UNCHANGED outside

PrepareGetAccount(account_response, overflow_checks) ==
    /\ pc = "prepare:get_account"
    /\ lastAnswer' = account_response
    /\ LET transaction == build_after_get_account(frame.source_public_key,
                                                  frame.function_name, frame.args,
                                                  account_response, overflow_checks)
           answered == Answered(log, Outcome(account_response))
       IN  IF ~transaction.ok
           THEN Return(transaction) /\ log' = answered /\ UNCHANGED frame
           ELSE Await("prepare:simulate",
                      [transaction |-> transaction.val],
                      Append(answered,
                             Request("simulateTransaction",
                                     unsigned_envelope(transaction.val))))
    /\ UNCHANGED <<call, held, heldSim>>
    /\ UNCHANGED outside

PrepareSimulateSharedDraft(a, overflow_checks) ==
    /\ pc = "prepare:simulate"
    /\ log' = Answered(log, Outcome(a))
    /\ lastAnswer' = a
    /\ Return(prepare_after_simulate(IF /\ "frame" \in DOMAIN parked
                                        /\ "transaction" \in DOMAIN parked.frame
                                     THEN parked.frame.transaction
                                     ELSE frame.transaction,
                                     a, overflow_checks))
    /\ UNCHANGED <<call, held, heldSim, frame>>
    /\ UNCHANGED outside

PrepareSimulate(a, overflow_checks) ==
    /\ pc = "prepare:simulate"
    /\ log' = Answered(log, Outcome(a))
    /\ lastAnswer' = a
    /\ Return(prepare_after_simulate(frame.transaction, a, overflow_checks))
    /\ UNCHANGED <<call, held, heldSim, frame>>
    /\ UNCHANGED outside

BuildAddTrustlineCall(source_account, asset_code, asset_issuer) ==
    /\ Start([op |-> "build_add_trustline_transaction", source_account |-> source_account,
              asset_code |-> asset_code, asset_issuer |-> asset_issuer])
    /\ LET keys == add_trustline_keys(source_account, asset_issuer)
       IN  IF ~keys.ok THEN Return(keys) /\ UNCHANGED <<log, frame>>
           ELSE Await("build_add_trustline:get_account", keys.val,
                      <<Request("getAccount", source_account)>>)

BuildAddTrustlineGetAccount(account_response, overflow_checks) ==
    /\ pc = "build_add_trustline:get_account"
    /\ log' = Answered(log, Outcome(account_response))
    /\ lastAnswer' = account_response
    /\ Return(build_add_trustline_transaction(frame, call.asset_code, account_response,
                                              overflow_checks))
    /\ UNCHANGED <<call, held, heldSim, frame>>
    /\ UNCHANGED outside

CheckTrustlineCall(account_address, asset_code, asset_issuer) ==
    /\ Start([op |-> "check_trustline_and_balance", account_address |-> account_address,
              asset_code |-> asset_code, asset_issuer |-> asset_issuer])
    /\ LET key == trustline_key(account_address, asset_code, asset_issuer)
       IN  IF ~key.ok THEN Return(key) /\ UNCHANGED <<log, frame>>
           ELSE Await("check_trustline:entry", NoFrame,
                      <<Request("getLedgerEntries", key.val)>>)

CheckTrustlineReturn(a) ==
    /\ pc = "check_trustline:entry"
    /\ log' = Answered(log, EntriesOutcome(a))
    /\ lastAnswer' = a
    /\ Return(check_trustline_and_balance(a))
    /\ UNCHANGED <<call, held, heldSim, frame>>
    /\ UNCHANGED outside

GetXlmBalanceCall(account_address) ==
    /\ Start([op |-> "get_xlm_balance", account_address |-> account_address])
    /\ Await("get_xlm_balance:account", NoFrame,
             <<Request("getAccount", account_address)>>)

GetXlmBalanceReturn(a) ==
    /\ pc = "get_xlm_balance:account"
    /\ log' = Answered(log, Outcome(a))
    /\ lastAnswer' = a
    /\ Return(get_xlm_balance(a))
    /\ UNCHANGED <<call, held, heldSim, frame>>
    /\ UNCHANGED outside

GetLedgerEntryCall(key) ==
    /\ Start([op |-> "get_ledger_entry", key |-> key])
    /\ Await("get_ledger_entry:entry", NoFrame, <<Request("getLedgerEntries", key)>>)

GetLedgerEntryReturn(a) ==
    /\ pc = "get_ledger_entry:entry"
    /\ log' = Answered(log, EntriesOutcome(a))
    /\ lastAnswer' = a
    /\ Return(get_ledger_entry(a))
    /\ UNCHANGED <<call, held, heldSim, frame>>
    /\ UNCHANGED outside

(***************************************************************************)
(* submit_transaction (the submit_*_transaction functions of the contract  *)
(* client hand their argument to it unchanged)                             *)
(***************************************************************************)
\* hex::encode of the hash the network answered with.
hex_encode(hash) == [hex |-> hash]

submit_envelope(signed_tx_xdr) ==
    LET envelope == from_xdr_base64("TransactionEnvelope", signed_tx_xdr)
    IN  IF ~envelope.ok THEN Err("Failed to parse signed transaction XDR")
        ELSE envelope

\* submit_transaction, after send_transaction has answered.
submit_transaction(answer) ==
    IF ~answer.ok THEN Err("Failed to submit transaction")
    ELSE Ok(hex_encode(answer.val))

\* Signed envelopes as the wallet hands them back, and the network's answers.
SignedXdrs ==
    {XdrOf("TransactionEnvelope", [tx |-> "t1", signatures |-> <<"s1">>]), Garbage}

SendAnswers == {Err("transport error"), Ok("h1"), Ok("h2")}

SubmitBegin(signed_tx_xdr) ==
    /\ Begin([op |-> "submit_transaction", signed_tx_xdr |-> signed_tx_xdr])
    /\ LET envelope == submit_envelope(signed_tx_xdr)
       IN  IF ~envelope.ok THEN Return(envelope) /\ log' = <<>> /\ frame' = NoFrame
           ELSE Await("submit:send", NoFrame,
                      <<Request("sendTransaction", envelope.val)>>)

SubmitCall(signed_tx_xdr) ==
    /\ Fresh
    /\ SubmitBegin(signed_tx_xdr)
    /\ UNCHANGED outside

SubmitReturn(a) ==
    /\ pc = "submit:send"
    /\ log' = Answered(log, Outcome(a))
    /\ lastAnswer' = a
    /\ Return(submit_transaction(a))
    /\ UNCHANGED <<call, held, heldSim, frame>>
    /\ UNCHANGED outside

(***************************************************************************)
(* str::parse for integers (the HTTP handlers parse `amount` as i128 and   *)
(* `nonce` as u64).  A text is a sequence of characters.                   *)
(***************************************************************************)
DigitChars == <<"0", "1", "2", "3", "4", "5", "6", "7", "8", "9">>

IsDigit(c) == \E d \in 1..10 : DigitChars[d] = c

DigitOf(c) == (CHOOSE d \in 1..10 : DigitChars[d] = c) - 1

\* The text of a sequence of decimal digits.
Text(digits) == [i \in DOMAIN digits |-> DigitChars[digits[i] + 1]]

\* a * m + c at the width of a: the limbs, and what is carried out of them.
RECURSIVE MulAdd(_, _, _)
MulAdd(a, m, c) ==
    IF a = <<>> THEN <<>>
    ELSE LET s == Head(a) * m + c
         IN  <<s % Limb>> \o MulAdd(Tail(a), m, s \div Limb)

RECURSIVE MulAddCarry(_, _, _)
MulAddCarry(a, m, c) ==
    IF a = <<>> THEN c
    ELSE MulAddCarry(Tail(a), m, (Head(a) * m + c) \div Limb)

\* Two's complement negation at the width of x.
Negate(x) ==
    AddCarry([i \in DOMAIN x |-> Limb - 1 - x[i]], [i \in DOMAIN x |-> 0], 1)

\* The digits of a numeral, most significant first, accumulated into acc
\* with checked multiplication and addition.
RECURSIVE parse_digits(_, _)
parse_digits(digits, acc) ==
    IF digits = <<>> THEN Ok(acc)
    ELSE IF ~IsDigit(Head(digits)) THEN Err("InvalidDigit")
    ELSE IF MulAddCarry(acc, 10, DigitOf(Head(digits))) # 0 THEN Err("PosOverflow")
    ELSE parse_digits(Tail(digits), MulAdd(acc, 10, DigitOf(Head(digits))))

\* "...".parse::<u64>(): an optional `+`, then at least one digit.
parse_u64(text) ==
    LET digits == IF text # <<>> /\ Head(text) = "+" THEN Tail(text) ELSE text
    IN  IF text = <<>> THEN Err("Empty")
        ELSE IF digits = <<>> THEN Err("InvalidDigit")
        ELSE parse_digits(digits, FromNat(0, 4))

\* "...".parse::<i128>(): an optional sign, then at least one digit; the
\* value must lie in -2^127 .. 2^127 - 1.
parse_i128(text) ==
    LET signed == text # <<>> /\ Head(text) \in {"+", "-"}
        digits == IF signed THEN Tail(text) ELSE text
        magnitude == parse_digits(digits, FromNat(0, 8))
    IN  IF text = <<>> THEN Err("Empty")
        ELSE IF digits = <<>> THEN Err("InvalidDigit")
        ELSE IF ~magnitude.ok THEN magnitude
        ELSE IF Head(text) = "-"
        THEN IF IsNegative(magnitude.val) /\ magnitude.val # Negate(magnitude.val)
             THEN Err("NegOverflow")
             ELSE Ok(Negate(magnitude.val))
        ELSE IF IsNegative(magnitude.val) THEN Err("PosOverflow")
        ELSE Ok(magnitude.val)

\* 2^127 and 2^64 in decimal digits.
TwoTo127 == <<1, 7, 0, 1, 4, 1, 1, 8, 3, 4, 6, 0, 4, 6, 9, 2, 3, 1, 7, 3,
              1, 6, 8, 7, 3, 0, 3, 7, 1, 5, 8, 8, 4, 1, 0, 5, 7, 2, 8>>

TwoTo64 == <<1, 8, 4, 4, 6, 7, 4, 4, 0, 7, 3, 7, 0, 9, 5, 5, 1, 6, 1, 6>>

\* The `amount` texts of plant requests: 1000, -1, +5, 2^127 (one past the
\* largest i128), -2^127 (the smallest), and four that are no numerals.
AmountTexts ==
    {Text(<<1, 0, 0, 0>>), <<"-", "1">>, <<"+", "5">>, Text(TwoTo127),
     <<"-">> \o Text(TwoTo127), <<>>, <<"-">>, <<"1", "x">>, <<" ", "1">>}

\* The `nonce` texts of work requests: 1, +7, 2^64 - 1, 2^64 (one past the
\* largest u64), and four that are no unsigned numerals.
NonceTexts ==
    {Text(<<1>>), <<"+", "7">>, Text(SubSeq(TwoTo64, 1, 19)) \o <<"5">>, Text(TwoTo64),
     <<>>, <<"-", "1">>, <<"7", " ">>, <<"+">>}

Init ==
    /\ pc = "idle"
    /\ call = NoCall
    /\ ret = NoRet
    /\ log = <<>>
    /\ lastAnswer = NoAnswer
    /\ held = NoTx
    /\ heldSim = NoSim
    /\ frame = NoFrame
    /\ auth_state = NoAuth
    /\ server = NoServer
    /\ handler = NoHandler
    /\ reply = NoReply
    /\ ledger = NoLedger
    /\ parked = NoCall

Next ==
    \/ \E s \in Strkeys, f \in FunctionNames, a \in ArgLists : BuildCall(s, f, a)
    \/ \E r \in AccountResponses, oc \in BOOLEAN : BuildGetAccount(r, oc)
    \/ SimulateCall
    \/ \E a \in SimulateAnswers : SimulateReturn(a)
    \/ \E oc \in BOOLEAN : Apply(oc)
    \/ \E sim \in Resimulations, oc \in BOOLEAN : Reapply(sim, oc)
    \/ GetBlockIndexCall
    \/ \E a \in LedgerEntriesAnswers(InstanceEntries) : GetBlockIndexReturn(a)
    \/ \E f \in Strkeys : HasPlantedCall(f)
    \/ \E a \in LedgerEntriesAnswers(InstanceEntries) : HasPlantedInstance(a)
    \/ \E a \in LedgerEntriesAnswers(PailEntries) : HasPlantedPail(a)
    \/ GetBlockInfoCall
    \/ \E a \in LedgerEntriesAnswers(InstanceEntries) : GetBlockInfoInstance(a)
    \/ \E a \in LedgerEntriesAnswers(BlockEntries) : GetBlockInfoBlock(a)
    \/ \E f \in Strkeys, i \in BlockIndexes : GetPailDataCall(f, i)
    \/ \E a \in LedgerEntriesAnswers(PailEntries) : GetPailDataReturn(a)
    \/ \E f \in Strkeys, n \in Nonces : CalculateWorkHashCall(f, n)
    \/ \E a \in LedgerEntriesAnswers(SingleInstanceEntries) : CalculateWorkHashInstance(a)
    \/ \E a \in LedgerEntriesAnswers(BlockEntries) : CalculateWorkHashBlock(a)
    \/ \E f \in Strkeys, amount \in Amounts : PreparePlantCall(f, amount)
    \/ \E a \in LedgerEntriesAnswers(TrustlineEntries) : PreparePlantTrustline(a)
    \/ \E f \in Strkeys, n \in Nonces : PrepareWorkCall(f, n)
    \/ \E a \in LedgerEntriesAnswers(SingleInstanceEntries) : PrepareWorkInstance(a)
    \/ \E a \in LedgerEntriesAnswers(BlockEntries) : PrepareWorkBlock(a)
    \/ \E f \in Strkeys, i \in BlockIndexes : PrepareHarvestCall(f, i)
    \/ \E r \in AccountResponses, oc \in BOOLEAN : PrepareGetAccount(r, oc)
    \/ \E a \in PrepareSimulateAnswers, oc \in BOOLEAN : PrepareSimulate(a, oc)
    \/ \E a \in Strkeys, c \in AssetCodes, i \in {KALE_ISSUER, "CA"} :
          BuildAddTrustlineCall(a, c, i)
    \/ \E r \in AccountResponses, oc \in BOOLEAN : BuildAddTrustlineGetAccount(r, oc)
    \/ \E a \in Strkeys, c \in AssetCodes, i \in {KALE_ISSUER, "CA"} :
          CheckTrustlineCall(a, c, i)
    \/ \E a \in LedgerEntriesAnswers(TrustlineEntries) : CheckTrustlineReturn(a)
    \/ \E a \in Strkeys : GetXlmBalanceCall(a)
    \/ \E r \in AccountResponses : GetXlmBalanceReturn(r)
    \/ \E k \in {instance_key, temporary_key(<<ScSymbol("Block"), ScU32(42)>>)} :
          GetLedgerEntryCall(k)
    \/ \E a \in LedgerEntriesAnswers(BlockEntries) : GetLedgerEntryReturn(a)
    \/ \E x \in SignedXdrs : SubmitCall(x)
    \/ \E a \in SendAnswers : SubmitReturn(a)
    \/ Forget

Spec == Init /\ [][Next]_vars

(***************************************************************************)
(* Properties                                                              *)
(***************************************************************************)
(***************************************************************************)
(* The HTTP handlers (albedo.rs).  `handler` is the request in service,    *)
(* `reply` the response to it.  A handler that calls the core runs the     *)
(* call's first segment itself and goes on when the call has returned.     *)
(***************************************************************************)
BAD_REQUEST == 400

INTERNAL_SERVER_ERROR == 500

STATUS_OK == 200

network_passphrase == "Test SDF Network ; September 2015"

Serving(route, payload, stage) ==
    [route |-> route, payload |-> payload, stage |-> stage,
     remaining |-> <<>>, farmers |-> <<>>, warnings |-> <<>>]

ErrorReply(status, error) == [status |-> status, body |-> [error |-> error]]

\* No request is in service and no call of the core is running.
Accept == handler = NoHandler /\ Fresh

\* What the handler's `map_err` puts before the error of the core.
FailureText(route) ==
    CASE route = "/api/plant/submit" -> "Failed to submit transaction"
      [] route = "/api/pail_data" -> "Failed to get pail data"
      [] OTHER -> "Failed to prepare transaction"

\* The JSON body of a handler's success.
ReplyBody(route, v) ==
    CASE route = "/api/plant/submit" -> [hash |-> v]
      [] route = "/api/pail_data" ->
            [hasPail |-> v[1], hasWorked |-> v[2], leadingZeros |-> v[3]]
      [] OTHER -> [xdr |-> v, network |-> network_passphrase]

HandlePlantPrepare(payload) ==
    /\ Accept
    /\ LET amount == parse_i128(payload.amount)
       IN  IF ~amount.ok
           THEN /\ reply' = ErrorReply(BAD_REQUEST, "Invalid amount format")
                /\ handler' = Serving("/api/plant/prepare", payload, "done")
                /\ UNCHANGED core
           ELSE /\ PreparePlantBegin(payload.public_key, amount.val)
                /\ handler' = Serving("/api/plant/prepare", payload, "core")
                /\ UNCHANGED reply
    /\ UNCHANGED <<auth_state, server, ledger, parked>>

HandleWorkPrepare(payload) ==
    /\ Accept
    /\ LET nonce == parse_u64(payload.nonce)
       IN  IF ~nonce.ok
           THEN /\ reply' = ErrorReply(BAD_REQUEST, "Invalid nonce format")
                /\ handler' = Serving("/api/work/prepare", payload, "done")
                /\ UNCHANGED core
           ELSE /\ PrepareWorkBegin(payload.public_key, nonce.val)
                /\ handler' = Serving("/api/work/prepare", payload, "core")
                /\ UNCHANGED reply
    /\ UNCHANGED <<auth_state, server, ledger, parked>>

HandleHarvestPrepare(payload) ==
    /\ Accept
    /\ PrepareHarvestBegin(payload.public_key, payload.block_index)
    /\ handler' = Serving("/api/harvest/prepare", payload, "core")
    /\ UNCHANGED <<reply, auth_state, server, ledger, parked>>

HandlePlantSubmit(payload) ==
    /\ Accept
    /\ SubmitBegin(payload.signed_xdr)
    /\ handler' = Serving("/api/plant/submit", payload, "core")
    /\ UNCHANGED <<reply, auth_state, server, ledger, parked>>

HandlePailData(payload) ==
    /\ Accept
    /\ GetPailDataBegin(payload.public_key, payload.block_index)
    /\ handler' = Serving("/api/pail_data", payload, "core")
    /\ UNCHANGED <<reply, auth_state, server, ledger, parked>>

\* The rest of a one-call handler answering a failure of the core with the
\* error in a success reply.
HandleReturnErrorInBody ==
    /\ handler.stage = "core"
    /\ handler.route # "/api/all_farmers"
    /\ pc = "returned"
    /\ reply' = IF ret = Panic THEN NoReply
                ELSE IF ~ret.ok
                THEN ErrorReply(STATUS_OK, <<FailureText(handler.route), ret.err>>)
                ELSE [status |-> STATUS_OK, body |-> ReplyBody(handler.route, ret.val)]
    /\ handler' = [handler EXCEPT !.stage = "done"]
    /\ UNCHANGED <<core, auth_state, server, ledger, parked>>

\* The rest of a handler that makes one call of the core: `.map_err(..)?`
\* and the Ok(Json(..)).  A panic of the call unwinds the handler's task:
\* the request gets no reply.
HandleReturn ==
    /\ handler.stage = "core"
    /\ handler.route # "/api/all_farmers"
    /\ pc = "returned"
    /\ reply' = IF ret = Panic THEN NoReply
                ELSE IF ~ret.ok
                THEN ErrorReply(INTERNAL_SERVER_ERROR, <<FailureText(handler.route), ret.err>>)
                ELSE [status |-> STATUS_OK, body |-> ReplyBody(handler.route, ret.val)]
    /\ handler' = [handler EXCEPT !.stage = "done"]
    /\ UNCHANGED <<core, auth_state, server, ledger, parked>>

FarmerPailInfo(farmer, pail) ==
    [farmer_address |-> farmer, has_pail |-> pail[1],
     has_worked |-> pail[2], leading_zeros |-> pail[3]]

\* handle_all_farmers up to the get_pail_data of its first address.
HandleAllFarmers(payload) ==
    /\ Accept
    /\ IF payload.farmer_addresses = <<>>
       THEN /\ reply' = [status |-> STATUS_OK, body |-> [farmers |-> <<>>]]
            /\ handler' = Serving("/api/all_farmers", payload, "done")
            /\ UNCHANGED core
       ELSE /\ GetPailDataBegin(Head(payload.farmer_addresses), payload.block_index)
            /\ handler' = [Serving("/api/all_farmers", payload, "core")
                             EXCEPT !.remaining = payload.farmer_addresses]
            /\ UNCHANGED reply
    /\ UNCHANGED <<auth_state, server, ledger, parked>>

\* One turn of the loop of handle_all_farmers, from the return of a
\* get_pail_data to the next one's request or to the reply; `warnings` is
\* what the handler has written to stderr.
AllFarmersNext ==
    /\ handler.stage = "core"
    /\ handler.route = "/api/all_farmers"
    /\ pc = "returned"
    /\ LET farmer == Head(handler.remaining)
           farmers_info ==
               IF ret.ok /\ ret.val[1]
               THEN Append(handler.farmers, FarmerPailInfo(farmer, ret.val))
               ELSE handler.farmers
           warned ==
               IF ret.ok THEN handler.warnings
               ELSE Append(handler.warnings, farmer)
           rest == Tail(handler.remaining)
       IN  IF rest = <<>>
           THEN /\ reply' = [status |-> STATUS_OK, body |-> [farmers |-> farmers_info]]
                /\ handler' = [handler EXCEPT !.stage = "done", !.remaining = rest,
                                              !.farmers = farmers_info,
                                              !.warnings = warned]
                /\ UNCHANGED core
           ELSE /\ GetPailDataBegin(Head(rest), handler.payload.block_index)
                /\ handler' = [handler EXCEPT !.remaining = rest,
                                              !.farmers = farmers_info,
                                              !.warnings = warned]
                /\ UNCHANGED reply
    /\ UNCHANGED <<auth_state, server, ledger, parked>>

\* The reply has gone out; the handler's locals are dropped.
Deliver ==
    /\ handler.stage = "done"
    /\ handler' = NoHandler
    /\ reply' = NoReply
    /\ pc' = "idle"
    /\ call' = NoCall
    /\ ret' = NoRet
    /\ log' = <<>>
    /\ lastAnswer' = NoAnswer
    /\ frame' = NoFrame
    /\ UNCHANGED <<held, heldSim, auth_state, server, ledger, parked>>

\* The requests the front end is sent, and the answers of the transport
\* to the Pail lookups of its handlers.
PlantPrepareRequests == [public_key : {"GA", "bad"}, amount : AmountTexts]

WorkPrepareRequests == [public_key : {"GA", "MA"}, nonce : NonceTexts]

HarvestPrepareRequests == [public_key : {"GA", "CA"}, block_index : BlockIndexes]

PlantSubmitRequests == [signed_xdr : SignedXdrs]

PailDataRequests == [public_key : {"GA", "bad"}, block_index : BlockIndexes]

AllFarmersRequests ==
    [block_index : {42},
     farmer_addresses : {<<>>, <<"GA">>, <<"bad">>, <<"GA", "GB">>, <<"bad", "GA">>,
                         <<"GA", "bad">>}]

ServedPailAnswers ==
    LedgerEntriesAnswers(
        {LedgerEntryResult(ContractData(ScMap(<<[key |-> ScSymbol("zeros"),
                                                 val |-> ScU32(3)]>>))),
         LedgerEntryResult(ContractData(ScMap(<<>>))),
         [xdr |-> Garbage]})

ServerInit == Init

ServerNext ==
    \/ \E p \in PlantPrepareRequests : HandlePlantPrepare(p)
    \/ \E p \in WorkPrepareRequests : HandleWorkPrepare(p)
    \/ \E p \in HarvestPrepareRequests : HandleHarvestPrepare(p)
    \/ \E p \in PlantSubmitRequests : HandlePlantSubmit(p)
    \/ \E p \in PailDataRequests : HandlePailData(p)
    \/ \E p \in AllFarmersRequests : HandleAllFarmers(p)
    \/ \E a \in LedgerEntriesAnswers(TrustlineEntries) : PreparePlantTrustline(a)
    \/ \E a \in LedgerEntriesAnswers(SingleInstanceEntries) : PrepareWorkInstance(a)
    \/ \E a \in LedgerEntriesAnswers(BlockEntries) : PrepareWorkBlock(a)
    \/ \E r \in AccountResponses, oc \in BOOLEAN : PrepareGetAccount(r, oc)
    \/ \E a \in PrepareSimulateAnswers, oc \in BOOLEAN : PrepareSimulate(a, oc)
    \/ \E a \in ServedPailAnswers : GetPailDataReturn(a)
    \/ \E a \in SendAnswers : SubmitReturn(a)
    \/ HandleReturn
    \/ AllFarmersNext
    \/ Deliver

ServerSpec == ServerInit /\ [][ServerNext]_vars

(***************************************************************************)
(* authenticate_and_plant / start_server and handle_pubkey (albedo.rs).    *)
(* `auth_state` is the AlbedoState behind the mutex, `server` the position *)
(* of start_server.  Neither side awaits anything while it holds the lock, *)
(* so each locked section is one step.                                     *)
(***************************************************************************)
AuthWait == {"auth:sleep", "auth:check"}

PlantWait == {"plant:sleep", "plant:wake"}

\* The spawned server task is running: requests are served.
Listening == server.pc \in AuthWait \cup PlantWait

\* authenticate_and_plant down to the first sleep of start_server: the
\* listener is bound (or `bind(..).await?` returns the error) and the server
\* task is spawned.
StartServer(bound) ==
    /\ server.pc = "start"
    /\ server' = IF bound THEN [server EXCEPT !.pc = "auth:sleep"]
                 ELSE [server EXCEPT !.pc = "returned", !.result = Err("bind")]
    /\ UNCHANGED <<core, auth_state, handler, reply, ledger, parked>>

\* tokio::time::sleep(100 ms) of the authentication loop is over.
AuthSleep ==
    /\ server.pc = "auth:sleep"
    /\ server' = [server EXCEPT !.pc = "auth:check"]
    /\ UNCHANGED <<core, auth_state, handler, reply, ledger, parked>>

\* One look of the authentication loop at the state behind the lock.
AuthCheck ==
    /\ server.pc = "auth:check"
    /\ server' =
          IF auth_state.completed /\ auth_state.error.some
          THEN [server EXCEPT !.pc = "returned",
                              !.result = Err(<<"Authentication failed", auth_state.error.v>>)]
          ELSE IF auth_state.completed /\ auth_state.pub_key.some
          THEN [server EXCEPT !.pc = "plant:sleep", !.pub_key = auth_state.pub_key]
          ELSE [server EXCEPT !.pc = "auth:sleep"]
    /\ UNCHANGED <<core, auth_state, handler, reply, ledger, parked>>

\* The second loop of start_server: sleep one second, go round.
PlantSleep ==
    /\ server.pc = "plant:sleep"
    /\ server' = [server EXCEPT !.pc = "plant:wake"]
    /\ UNCHANGED <<core, auth_state, handler, reply, ledger, parked>>

PlantLoop ==
    /\ server.pc = "plant:wake"
    /\ server' = [server EXCEPT !.pc = "plant:sleep"]
    /\ UNCHANGED <<core, auth_state, handler, reply, ledger, parked>>

HandlePubkey(payload) ==
    /\ Listening
    /\ Accept
    /\ auth_state' =
          [pub_key |-> IF payload.pubkey.some THEN payload.pubkey ELSE auth_state.pub_key,
           error |-> IF payload.error.some THEN payload.error ELSE auth_state.error,
           completed |-> TRUE]
    /\ reply' = [status |-> STATUS_OK, body |-> [status |-> "ok"]]
    /\ handler' = Serving("/api/pubkey", payload, "done")
    /\ UNCHANGED <<core, server, ledger, parked>>

\* handle_plant_submit, served by the running server task.
ServePlantSubmit(payload) ==
    /\ Listening
    /\ HandlePlantSubmit(payload)

PubkeyResponses ==
    [pubkey : {None, Some("GA"), Some("GB")}, error : {None, Some("rejected")}]

AuthInit ==
    /\ pc = "idle"
    /\ call = NoCall
    /\ ret = NoRet
    /\ log = <<>>
    /\ lastAnswer = NoAnswer
    /\ held = NoTx
    /\ heldSim = NoSim
    /\ frame = NoFrame
    /\ auth_state = [pub_key |-> None, error |-> None, completed |-> FALSE]
    /\ server = [pc |-> "start", pub_key |-> None, result |-> NoRet]
    /\ handler = NoHandler
    /\ reply = NoReply
    /\ ledger = NoLedger
    /\ parked = NoCall

AuthNext ==
    \/ \E bound \in BOOLEAN : StartServer(bound)
    \/ AuthSleep
    \/ AuthCheck
    \/ PlantSleep
    \/ PlantLoop
    \/ \E p \in PubkeyResponses : HandlePubkey(p)
    \/ \E p \in PlantSubmitRequests : ServePlantSubmit(p)
    \/ \E a \in SendAnswers : SubmitReturn(a)
    \/ HandleReturn
    \/ Deliver

\* The timers of tokio fire, the transport answers or times out, and a
\* handler that can go on does: weak fairness of every step but the
\* arrival of a request.
AuthFairness ==
    /\ WF_vars(\E bound \in BOOLEAN : StartServer(bound))
    /\ WF_vars(AuthSleep)
    /\ WF_vars(AuthCheck)
    /\ WF_vars(PlantSleep)
    /\ WF_vars(PlantLoop)
    /\ WF_vars(\E a \in SendAnswers : SubmitReturn(a))
    /\ WF_vars(HandleReturn)
    /\ WF_vars(Deliver)

AuthSpec == AuthInit /\ [][AuthNext]_vars /\ AuthFairness

(***************************************************************************)
(* Runs against a ledger.  `ledger` is what the network holds: the         *)
(* sequence number of each account, the KALE trustlines, the contract's    *)
(* FarmIndex, the Block entries, the account and sequence number of each   *)
(* transaction it has applied.  The transport answers every request from   *)
(* it, or fails.  Two callers share the one Kale client of AppState: the   *)
(* caller that is scheduled has its call in the core variables, the        *)
(* other's call waits in `parked`.                                         *)
(***************************************************************************)
MaxFarmIndex == 8

MaxAccepted == 1

AccountKeys == {"A", "B"}

\* The entropy the contract gives the block of an index.
EntropyOf(i) == IF i = 7 THEN "e1" ELSE IF i = 8 THEN "e2" ELSE "e3"

LedgerStart ==
    [seq |-> [k \in AccountKeys |-> FromNat(5, 4)],
     trustlines |-> AccountKeys,
     farm_index |-> 7,
     blocks |-> [i \in {7} |-> EntropyOf(i)],
     accepted |-> <<>>]

InstanceEntryOf(l) ==
    LedgerEntryResult(ContractData(ScContractInstance(
        Some(<<[key |-> FarmIndexKey, val |-> ScU32(l.farm_index)]>>))))

BlockEntryOf(l, i) ==
    LedgerEntryResult(ContractData(ScMap(
        <<[key |-> ScSymbol("entropy"), val |-> ScBytes(32, l.blocks[i])]>>)))

BlockKey(i) == temporary_key(<<ScSymbol("Block"), ScU32(i)>>)

\* The entries the ledger holds under a key.
LedgerEntries(l, key) ==
    IF key.type = "Trustline"
    THEN IF key.account_id \in l.trustlines
         THEN <<LedgerEntryResult(Trustline(70))>> ELSE <<>>
    ELSE IF key = instance_key THEN <<InstanceEntryOf(l)>>
    ELSE IF \E i \in DOMAIN l.blocks : key = BlockKey(i)
    THEN <<BlockEntryOf(l, CHOOSE i \in DOMAIN l.blocks : key = BlockKey(i))>>
    ELSE <<>>

\* The simulation of an invocation: it succeeds, asks for one authorization
\* entry and a resource fee of 500.
LedgerSimulation ==
    [error |-> "None",
     results |-> <<[auth |-> <<XdrOf("SorobanAuthorizationEntry", "a1")>>]>>,
     transaction_data |-> XdrOf("SorobanTransactionData",
                                [resources |-> "r1", resource_fee |-> 10]),
     min_resource_fee |-> FromNat(500, 4)]

\* The answer of the RPC server to a request, from the ledger l.
LedgerAnswer(l, request) ==
    IF request.rpc = "getAccount"
    THEN LET account == Strkey_from_string(request.arg)
         IN  IF account.ok /\ account.val.key \in DOMAIN l.seq
             THEN Ok([seq_num |-> l.seq[account.val.key], balance |-> 7])
             ELSE Err("NotFound")
    ELSE IF request.rpc = "getLedgerEntries"
    THEN Ok([entries |-> Some(LedgerEntries(l, request.arg))])
    ELSE Ok(LedgerSimulation)

\* What the pending request of the running call can be answered.
TransportAnswers ==
    IF log # <<>> /\ log[Len(log)].outcome = "pending"
    THEN {Err("transport error"), LedgerAnswer(ledger, log[Len(log)])}
    ELSE {}

\* The call of the caller that is scheduled, as `parked` keeps the other.
Running ==
    [pc |-> pc, call |-> call, ret |-> ret, log |-> log, lastAnswer |-> lastAnswer,
     held |-> held, heldSim |-> heldSim, frame |-> frame]

IdleTask ==
    [pc |-> "idle", call |-> NoCall, ret |-> NoRet, log |-> <<>>,
     lastAnswer |-> NoAnswer, held |-> NoTx, heldSim |-> NoSim, frame |-> NoFrame]

\* The runtime schedules the other caller: every local of a call lives in
\* its own future, the client they share is never written.
Switch ==
    /\ parked' = Running
    /\ pc' = parked.pc
    /\ call' = parked.call
    /\ ret' = parked.ret
    /\ log' = parked.log
    /\ lastAnswer' = parked.lastAnswer
    /\ held' = parked.held
    /\ heldSim' = parked.heldSim
    /\ frame' = parked.frame
    /\ UNCHANGED <<auth_state, server, handler, reply, ledger>>

\* The contract moves on to the next block.
AdvanceFarm ==
    /\ ledger.farm_index < MaxFarmIndex
    /\ ledger' = [ledger EXCEPT !.farm_index = @ + 1]
    /\ UNCHANGED <<core, auth_state, server, handler, reply, parked>>

\* The Block entry of the current index is written.
CreateBlock ==
    /\ ledger.farm_index \notin DOMAIN ledger.blocks
    /\ ledger' = [ledger EXCEPT !.blocks =
                     [i \in DOMAIN @ \cup {ledger.farm_index} |->
                         IF i \in DOMAIN @ THEN @[i] ELSE EntropyOf(i)]]
    /\ UNCHANGED <<core, auth_state, server, handler, reply, parked>>

PrepareOps == {"prepare_plant_transaction", "prepare_work_transaction"}

\* A prepare call has returned its envelope.
HoldsDraft(t) == t.pc = "returned" /\ t.call.op \in PrepareOps /\ t.ret.ok

DraftOf(t) == t.ret.val.value.tx

\* The running caller signs the envelope it was returned and sends it: the
\* ledger applies a transaction whose sequence number is the account's plus
\* one, and rejects any other.
LedgerSubmit ==
    /\ HoldsDraft(Running)
    /\ LET tx == DraftOf(Running)
           k == tx.source_account.key
       IN  IF tx.seq_num = wrapping_add(ledger.seq[k], FromNat(1, 4))
           THEN /\ Len(ledger.accepted) < MaxAccepted
                /\ ledger' = [ledger EXCEPT !.seq[k] = tx.seq_num,
                                            !.accepted =
                                                Append(@, [source_account |-> tx.source_account,
                                                           seq_num |-> tx.seq_num])]
           ELSE ledger' = ledger
    /\ pc' = "idle"
    /\ call' = NoCall
    /\ ret' = NoRet
    /\ log' = <<>>
    /\ lastAnswer' = NoAnswer
    /\ held' = NoTx
    /\ heldSim' = NoSim
    /\ frame' = NoFrame
    /\ UNCHANGED <<auth_state, server, handler, reply, parked>>

LedgerInit ==
    /\ pc = "idle"
    /\ call = NoCall
    /\ ret = NoRet
    /\ log = <<>>
    /\ lastAnswer = NoAnswer
    /\ held = NoTx
    /\ heldSim = NoSim
    /\ frame = NoFrame
    /\ auth_state = NoAuth
    /\ server = NoServer
    /\ handler = NoHandler
    /\ reply = NoReply
    /\ ledger = LedgerStart
    /\ parked = IdleTask

LedgerNext ==
    \/ \E f \in {"GA", "GB"} : PreparePlantCall(f, FromNat(1000, 8))
    \/ \E a \in TransportAnswers : PreparePlantTrustline(a)
    \/ \E f \in {"GA", "GB"} : PrepareWorkCall(f, FromNat(1, 4))
    \/ \E a \in TransportAnswers : PrepareWorkInstance(a)
    \/ \E a \in TransportAnswers : PrepareWorkBlock(a)
    \/ \E a \in TransportAnswers, oc \in BOOLEAN : PrepareGetAccount(a, oc)
    \/ \E a \in TransportAnswers, oc \in BOOLEAN : PrepareSimulate(a, oc)
    \/ GetBlockInfoCall
    \/ \E a \in TransportAnswers : GetBlockInfoInstance(a)
    \/ \E a \in TransportAnswers : GetBlockInfoBlock(a)
    \/ CalculateWorkHashCall("GA", FromNat(1, 4))
    \/ \E a \in TransportAnswers : CalculateWorkHashInstance(a)
    \/ \E a \in TransportAnswers : CalculateWorkHashBlock(a)
    \/ Forget
    \/ Switch
    \/ AdvanceFarm
    \/ CreateBlock
    \/ LedgerSubmit

LedgerSpec == LedgerInit /\ [][LedgerNext]_vars

Returned(op) == pc = "returned" /\ call.op = op

Applied == Returned("apply_simulation_to_transaction")

Built == Returned("build_invoke_transaction")

AuthEntryXdr(e) == XdrOf("SorobanAuthorizationEntry", e)

\* C1: apply fails whenever the simulation result carries an error string
\* (and then hands no changed draft back).
C1_SimulationGating ==
    (Applied /\ call.simulation.error # "None") => ~ret.ok

\* C2: when an authorization entry of the applied simulation result fails
\* to decode, apply fails; it never returns a transaction whose list omits it.
C2_MalformedAuthEntry ==
    (/\ Applied
     /\ call.simulation.results # <<>>
     /\ \E i \in DOMAIN Head(call.simulation.results).auth :
           Head(call.simulation.results).auth[i].b64 # "SorobanAuthorizationEntry")
    => ~ret.ok

\* C3: after every successful apply the operation's authorization list is
\* the simulation result's list of entries: same length, same order.
C3_AuthReplaced ==
    (Applied /\ ret.ok) =>
        LET auth == ret.val.operations[1].body.auth
            entries == Head(call.simulation.results).auth
        IN  /\ Len(auth) = Len(entries)
            /\ \A i \in DOMAIN entries : AuthEntryXdr(auth[i]) = entries[i]

\* C4: after every successful apply the fee is 100 + minimumResourceFee as
\* integers, never a wrapped or truncated value of that sum.
C4_FeeArithmetic ==
    (Applied /\ ret.ok) =>
        ZeroExtend(ret.val.fee, 5)
          = AddCarry(FromNat(100, 5), ZeroExtend(call.simulation.min_resource_fee, 5), 0)

\* C5: the extension slot is absent on every draft build returns and on
\* every draft the caller holds before apply; after a successful apply it is
\* present and carries the resources and the resource fee of the simulation
\* result that was applied.
C5_ExtensionSlot ==
    /\ (Built /\ ret.ok) => ret.val.ext = [v |-> 0]
    /\ held # NoTx => held.ext = [v |-> 0]
    /\ (Applied /\ ret.ok) =>
          /\ call.simulation.transaction_data.b64 = "SorobanTransactionData"
          /\ ret.val.ext.v = 1
          /\ ret.val.ext.resources = call.simulation.transaction_data.value.resources
          /\ ret.val.ext.resource_fee = call.simulation.transaction_data.value.resource_fee

C5_Witness ==
    /\ Applied
    /\ ret.ok
    /\ call.transaction.ext = [v |-> 0]
    /\ ret.val.ext.resources = "r2"

\* C6: every draft build returns has sequence number fetched + 1 as
\* integers (no wrap-around), the placeholder fee, exactly one operation, the
\* invocation of functionName with args in the given order, and an empty
\* authorization list.
C6_BuildDraft ==
    (Built /\ ret.ok) =>
        /\ SignExtend(ret.val.seq_num, 5)
             = AddCarry(SignExtend(lastAnswer.val.seq_num, 5), FromNat(1, 5), 0)
        /\ ret.val.fee = FromNat(100, 2)
        /\ Len(ret.val.operations) = 1
        /\ ret.val.operations[1].body.type = "InvokeHostFunction"
        /\ ret.val.operations[1].body.host_function.function_name = call.function_name
        /\ ret.val.operations[1].body.host_function.args = call.args
        /\ ret.val.operations[1].body.auth = <<>>

\* C7: when getAccount reports that the source account does not exist,
\* build fails with the account-not-found error and returns no draft.
C7_AccountNotFound ==
    (Built /\ log # <<>> /\ log[1].outcome = "absent") =>
        /\ ~ret.ok
        /\ ret.err = "NotFound"
        /\ held = NoTx

C7_Witness ==
    /\ Built
    /\ log # <<>>
    /\ log[1].outcome = "absent"
    /\ lastAnswer = Err("NotFound")

\* C8: during a build call the only transport operation issued is
\* getAccount (never simulate or submit), and the draft it returns carries
\* no signature.
C8_BuildOnlyGetsAccount ==
    call.op = "build_invoke_transaction" =>
        /\ \A i \in DOMAIN log : log[i].rpc = "getAccount"
        /\ Len(log) <= 1
        /\ (pc = "returned" /\ ret.ok) => "signatures" \notin DOMAIN ret.val

C8_Witness ==
    /\ Built
    /\ ret.ok
    /\ Len(log) = 1
    /\ log[1].rpc = "getAccount"

\* C9: a transport-level failure of getLedgerEntries or getAccount is always
\* reported to the caller as an error: no call returns a value (absent, false,
\* None included) when a transport request it issued failed.
C9_TransportErrorsSurface ==
    (pc = "returned" /\ \E i \in DOMAIN log : log[i].outcome = "transport error")
    => ~ret.ok

\* The FarmIndex fields of an instance entry, by position in its storage map.
InstanceStorageOf(a) ==
    IF /\ a.ok
       /\ first_entry(a.val).some
       /\ first_entry(a.val).v.xdr.b64 = "LedgerEntryData"
       /\ first_entry(a.val).v.xdr.value.type = "ContractData"
       /\ first_entry(a.val).v.xdr.value.val.t = "ContractInstance"
       /\ first_entry(a.val).v.xdr.value.val.storage.some
    THEN first_entry(a.val).v.xdr.value.val.storage.v
    ELSE <<>>

FarmIndexFields(a) ==
    {i \in DOMAIN InstanceStorageOf(a) : InstanceStorageOf(a)[i].key = FarmIndexKey}

\* The instance entry carries a block index: it has a FarmIndex field and
\* (the first such) field is an unsigned 32-bit integer.
CarriesBlockIndex(a, n) ==
    /\ FarmIndexFields(a) # {}
    /\ \E i \in FarmIndexFields(a) :
          /\ \A j \in FarmIndexFields(a) : i <= j
          /\ InstanceStorageOf(a)[i].val = ScU32(n)

\* C10: get_block_info takes the block index from the instance entry and
\* fails whenever the instance entry has no FarmIndex field or that field is
\* not an unsigned 32-bit integer; it never goes on with a default index.
C10_BlockIndexFromInstance ==
    call.op = "get_block_info" =>
        /\ pc = "get_block_info:block" =>
              CarriesBlockIndex(lastAnswer, frame.block_index)
        /\ (pc = "returned" /\ Len(log) = 1) =>
              /\ ~ret.ok
              /\ \A n \in 0..50 : ~CarriesBlockIndex(lastAnswer, n)
        /\ (pc = "returned" /\ ret.ok) =>
              /\ Len(log) = 2
              /\ CarriesBlockIndex(frame.instance, ret.val[1])

C10_Witness ==
    /\ Returned("get_block_info")
    /\ ~ret.ok
    /\ Len(log) = 1
    /\ InstanceStorageOf(lastAnswer) # <<>>
    /\ \E i \in FarmIndexFields(lastAnswer) : InstanceStorageOf(lastAnswer)[i].val.t # "U32"

\* The fields of a present Block entry that answered the Block lookup.
BlockMapOf(a) ==
    IF /\ a.ok
       /\ first_entry(a.val).some
       /\ first_entry(a.val).v.xdr.b64 = "LedgerEntryData"
       /\ first_entry(a.val).v.xdr.value.type = "ContractData"
       /\ IsMapSome(first_entry(a.val).v.xdr.value.val)
    THEN first_entry(a.val).v.xdr.value.val.map
    ELSE <<>>

BlockLookupAnswered(outcome) ==
    /\ Returned("get_block_info")
    /\ Len(log) = 2
    /\ log[2].outcome = outcome

\* C11: when the block entry is present, get_block_info either returns the
\* 32 bytes of an `entropy` field of the entry's map or fails; a present
\* entry never yields entropy = None.
C11_EntropyOrMalformed ==
    BlockLookupAnswered("ok") =>
        \/ ~ret.ok
        \/ /\ ret.val[2].some
           /\ \E i \in DOMAIN BlockMapOf(lastAnswer) :
                 /\ BlockMapOf(lastAnswer)[i].key = ScSymbol("entropy")
                 /\ BlockMapOf(lastAnswer)[i].val.t = "Bytes"
                 /\ BlockMapOf(lastAnswer)[i].val.len = 32
                 /\ BlockMapOf(lastAnswer)[i].val.bytes = ret.val[2].v

\* C12: when the instance entry carries block index n and the block entry
\* does not exist, get_block_info succeeds with (n, None).
C12_AbsentBlock ==
    BlockLookupAnswered("absent") =>
        /\ ret = Ok(<<frame.block_index, None>>)
        /\ CarriesBlockIndex(frame.instance, ret.val[1])

C12_Witness ==
    /\ BlockLookupAnswered("absent")
    /\ CarriesBlockIndex(frame.instance, 42)
    /\ ret = Ok(<<42, None>>)

\* The fields of a present Pail entry that answered the lookup of
\* get_pail_data, and among them the `zeros` field the decoder reads.
PailMapOf(a) ==
    IF /\ a.ok
       /\ first_entry(a.val).some
       /\ first_entry(a.val).v.xdr.b64 = "LedgerEntryData"
       /\ first_entry(a.val).v.xdr.value.type = "ContractData"
       /\ IsMapSome(first_entry(a.val).v.xdr.value.val)
    THEN first_entry(a.val).v.xdr.value.val.map
    ELSE <<>>

ZerosFields(a) ==
    {i \in DOMAIN PailMapOf(a) : PailMapOf(a)[i].key = ScSymbol("zeros")}

ZerosField(a) ==
    PailMapOf(a)[CHOOSE i \in ZerosFields(a) : \A j \in ZerosFields(a) : i <= j].val

\* get_pail_data has returned for a present Pail entry that decodes to a map.
PailDecoded ==
    /\ Returned("get_pail_data")
    /\ Len(log) = 1
    /\ log[1].outcome = "ok"
    /\ first_entry(lastAnswer.val).v.xdr.b64 = "LedgerEntryData"
    /\ first_entry(lastAnswer.val).v.xdr.value.type = "ContractData"
    /\ IsMapSome(first_entry(lastAnswer.val).v.xdr.value.val)

\* The result of get_pail_data for a present entry with proof p (an Option).
StakeRecord(p) == Ok(<<TRUE, p.some, IF p.some THEN p.v ELSE 0>>)

\* C13: for a present stake entry the `zeros` field maps as follows: U32 v
\* gives Some(v), an empty sequence gives None, a one-element sequence
\* wrapping U32 v gives Some(v), and every other shape fails.
C13_ProofFieldShapes ==
    (PailDecoded /\ ZerosFields(lastAnswer) # {}) =>
        LET z == ZerosField(lastAnswer)
        IN  IF z.t = "U32" THEN ret = StakeRecord(Some(z.u32))
            ELSE IF IsVecSome(z) /\ z.vec = <<>> THEN ret = StakeRecord(None)
            ELSE IF IsVecSome(z) /\ Len(z.vec) = 1 /\ z.vec[1].t = "U32"
            THEN ret = StakeRecord(Some(z.vec[1].u32))
            ELSE ~ret.ok

\* C14 (as stated): for a present stake entry, a missing `zeros` field, an
\* empty sequence and a one-element sequence each decode to proof None, and
\* a direct U32 v decodes to proof Some(v).
C14_StakeAbsentEncodings_Original ==
    PailDecoded =>
        IF ZerosFields(lastAnswer) = {} THEN ret = StakeRecord(None)
        ELSE LET z == ZerosField(lastAnswer)
             IN  /\ z.t = "U32" => ret = StakeRecord(Some(z.u32))
                 /\ (IsVecSome(z) /\ Len(z.vec) <= 1) => ret = StakeRecord(None)

\* C14 (amended): for a present stake entry, a missing `zeros` field and an
\* empty sequence decode to proof None; a one-element sequence decodes to
\* proof Some(v) when it wraps a U32 v and to None otherwise; a direct U32 v
\* decodes to proof Some(v).
C14_StakeAbsentEncodings ==
    PailDecoded =>
        IF ZerosFields(lastAnswer) = {} THEN ret = StakeRecord(None)
        ELSE LET z == ZerosField(lastAnswer)
             IN  /\ z.t = "U32" => ret = StakeRecord(Some(z.u32))
                 /\ (IsVecSome(z) /\ z.vec = <<>>) => ret = StakeRecord(None)
                 /\ (IsVecSome(z) /\ Len(z.vec) = 1) =>
                       ret = StakeRecord(IF z.vec[1].t = "U32"
                                         THEN Some(z.vec[1].u32) ELSE None)

C14_Witness ==
    /\ PailDecoded
    /\ ZerosFields(lastAnswer) # {}
    /\ ZerosField(lastAnswer) = ScVec(<<ScU32(3)>>)
    /\ ret = StakeRecord(Some(3))

\* C15: the proof preimage is exactly 76 bytes: bytes 0-3 the block index
\* big-endian, bytes 4-11 the nonce big-endian, bytes 12-43 the block
\* entropy, bytes 44-75 the last 32 bytes of the address's encoding (the raw
\* key of an account address); the digest is the hash of this preimage.
C15_ProofPreimage ==
    (Returned("calculate_work_hash") /\ ret.ok) =>
        LET p == ret.val.keccak256
            address == ScAddress_to_xdr(farmer_address(call.farmer_public_key).val)
        IN  /\ Len(p) = 76
            /\ \A i \in 1..76 : p[i] \in 0..255
            /\ ((p[1] * 256 + p[2]) * 256 + p[3]) * 256 + p[4] = frame.block_index
            /\ \A k \in 1..4 : p[13 - 2 * k] * 256 + p[14 - 2 * k] = call.nonce[k]
            /\ SubSeq(p, 13, 44) = BytesOf(find_entropy(BlockMapOf(lastAnswer)).v)
            /\ SubSeq(p, 45, 76) = SubSeq(address, Len(address) - 31, Len(address))
            /\ SubSeq(p, 45, 76) = BytesOf(Strkey_from_string(call.farmer_public_key).val.key)
            /\ DOMAIN ret.val = {"keccak256"}

C15_Witness ==
    /\ Returned("calculate_work_hash")
    /\ ret.ok
    /\ frame.block_index = 42
    /\ call.nonce = <<1800, 1286, 772, 258>>
    /\ SubSeq(ret.val.keccak256, 1, 12) = <<0, 0, 0, 42, 1, 2, 3, 4, 5, 6, 7, 8>>

EntropyUnavailable ==
    Err("Cannot calculate work hash - nobody has planted in this block yet")

\* The call has looked the Block entry up and found none.
BlockAbsent ==
    /\ Len(log) >= 2
    /\ log[2].rpc = "getLedgerEntries"
    /\ log[2].outcome = "absent"

\* C16: calculate_work_hash fails with the entropy-unavailable error
\* whenever the block has no entropy (nobody has planted in it), and
\* prepare_work_transaction for such a block fails with it before any
\* draft is built or simulated.
C16_EntropyUnavailable ==
    /\ (Returned("calculate_work_hash") /\ BlockAbsent) => ret = EntropyUnavailable
    /\ (call.op = "prepare_work_transaction" /\ BlockAbsent) =>
          /\ pc = "returned"
          /\ ret = EntropyUnavailable
          /\ Len(log) = 2
          /\ \A i \in DOMAIN log : log[i].rpc = "getLedgerEntries"

C16_Witness ==
    /\ call.op = "prepare_work_transaction"
    /\ BlockAbsent
    /\ pc = "returned"
    /\ frame.block_index = 42

\* The asset encodes the code: the 4-byte form for a code of at most 4
\* bytes and the 12-byte form otherwise, the code's bytes first, zero bytes
\* after them.
EncodesAssetCode(asset, code) ==
    LET n == IF Len(code) <= 4 THEN 4 ELSE 12
    IN  /\ asset.type = (IF Len(code) <= 4 THEN "CreditAlphanum4" ELSE "CreditAlphanum12")
        /\ Len(asset.asset_code) = n
        /\ Len(code) <= n
        /\ \A i \in 1..n :
              asset.asset_code[i] = (IF i <= Len(code) THEN code[i] ELSE 0)

\* C17: the trustline key (and the change-trust operation) encodes the asset
\* code by length, 4-byte form up to 4 bytes and 12-byte form beyond, the
\* code's own bytes followed only by zero padding; no byte of the code is
\* dropped.
C17_AssetCodeEncoding ==
    /\ (call.op = "check_trustline_and_balance" /\ log # <<>>) =>
          EncodesAssetCode(log[1].arg.asset, call.asset_code)
    /\ (Returned("build_add_trustline_transaction") /\ ret.ok) =>
          EncodesAssetCode(ret.val.operations[1].body.line, call.asset_code)

\* The key of the stake record of farmer in block block_index, written out.
PailKey(farmer_public_key, block_index) ==
    [type |-> "ContractData",
     contract |-> "KALE",
     key |-> [t |-> "Vec",
              vec |-> <<[t |-> "Symbol", sym |-> "Pail"],
                        [t |-> "Address", kind |-> "Account",
                         key |-> Strkey_from_string(farmer_public_key).val.key],
                        [t |-> "U32", u32 |-> block_index]>>],
     durability |-> "Temporary"]

\* C18: the key of a stake record is [Symbol("Pail"), Address(farmer),
\* U32(blockIndex)] under the contract id with temporary durability, and
\* has_planted and get_pail_data both look up exactly that key, a function
\* of (contract, farmer, blockIndex) alone, on every call.
C18_PailKeyDeterminism ==
    /\ (call.op = "has_planted" /\ Len(log) = 2) =>
          log[2].arg = PailKey(call.farmer_public_key, frame.block_index)
    /\ (call.op = "get_pail_data" /\ Len(log) = 1) =>
          log[1].arg = PailKey(call.farmer_public_key, call.block_index)

C18_Witness ==
    /\ call.op = "has_planted"
    /\ Len(log) = 2
    /\ frame.block_index = 42
    /\ log[2].arg = PailKey("GA", 42)

\* The operations that take an account address, and the address they took.
AddressOperations ==
    {"build_invoke_transaction", "build_add_trustline_transaction",
     "check_trustline_and_balance", "has_planted", "get_pail_data",
     "prepare_plant_transaction", "prepare_work_transaction",
     "prepare_harvest_transaction"}

AddressOf(c) ==
    IF c.op \in {"build_invoke_transaction", "build_add_trustline_transaction"}
    THEN c.source_account
    ELSE IF c.op = "check_trustline_and_balance" THEN c.account_address
    ELSE c.farmer_public_key

\* The text decodes to a key that is not a plain Ed25519 account key.
OtherKeyKind(s) == s \in {"MA", "CA"}

\* C19: every operation that takes an account address fails when the text
\* decodes to a key kind other than a plain Ed25519 account key, and
\* produces no draft, key or lookup for it: the only requests it may have
\* issued are the lookups of the instance and Block entries.
C19_OnlyAccountKeys ==
    (call.op \in AddressOperations /\ OtherKeyKind(AddressOf(call))) =>
        /\ pc = "returned" => ~ret.ok
        /\ held = NoTx
        /\ \A i \in DOMAIN log :
              /\ log[i].rpc = "getLedgerEntries"
              /\ \/ log[i].arg = instance_key
                 \/ /\ call.op = "prepare_work_transaction"
                    /\ log[i].arg.key.vec[1] = [t |-> "Symbol", sym |-> "Block"]
        /\ call.op \notin {"has_planted", "prepare_work_transaction"} => log = <<>>

C19_Witness ==
    /\ Returned("prepare_work_transaction")
    /\ call.farmer_public_key = "MA"
    /\ Len(log) = 2
    /\ ret = Err("Invalid farmer public key type")

\* hi * 2^64 + lo = a for a signed 128-bit a, a signed 64-bit hi and an
\* unsigned 64-bit lo, in limbs of 16 bits: both sides have the same eight
\* two's-complement limbs (the sign of hi is the sign of a).
SplitsAmount(hi, lo, a) ==
    /\ Len(hi) = 4
    /\ Len(lo) = 4
    /\ \A k \in 1..4 : lo[k] \in 0..(Limb - 1) /\ hi[k] \in 0..(Limb - 1)
    /\ \A k \in 1..4 : lo[k] = a[k] /\ hi[k] = a[k + 4]
    /\ IsNegative(hi) = (a[8] >= 32768)

\* C20: for every signed 128-bit stake amount a, negative ones included, the
\* plant argument is the pair (hi: i64, lo: u64) with hi * 2^64 + lo = a.
C20_AmountHalves ==
    (call.op = "prepare_plant_transaction" /\ pc = "prepare:get_account") =>
        /\ Len(frame.args) = 2
        /\ frame.args[2].t = "I128"
        /\ SplitsAmount(frame.args[2].hi, frame.args[2].lo, call.amount)

C20_Witness ==
    /\ call.op = "prepare_plant_transaction"
    /\ pc = "prepare:get_account"
    /\ call.amount = <<5, 0, 0, 32768, Limb - 1, Limb - 1, Limb - 1, Limb - 1>>
    /\ frame.args[2].hi = <<Limb - 1, Limb - 1, Limb - 1, Limb - 1>>
    /\ frame.args[2].lo = <<5, 0, 0, 32768>>

\* What apply leaves alone: everything of a transaction but its fee, the
\* authorization list of its operation and its extension slot.
DraftFrame(transaction) ==
    [source_account |-> transaction.source_account,
     seq_num |-> transaction.seq_num,
     cond |-> transaction.cond,
     memo |-> transaction.memo,
     operations |-> Len(transaction.operations),
     operation_source |-> transaction.operations[1].source_account,
     body |-> transaction.operations[1].body.type,
     host_function |-> transaction.operations[1].body.host_function]

\* C25: a successful apply changes only the fee, the authorization list of
\* the invocation operation and the extension slot: source account, sequence
\* number, preconditions, memo, number of operations, contract address,
\* function name and argument list of the returned transaction are those of
\* the draft that was handed to apply.
C25_ApplyFrame ==
    (Applied /\ ret.ok) =>
        /\ DraftFrame(ret.val) = DraftFrame(call.transaction)
        /\ DOMAIN ret.val = DOMAIN call.transaction
        /\ DOMAIN ret.val.operations[1].body = DOMAIN call.transaction.operations[1].body

C25_Witness ==
    /\ Applied
    /\ ret.ok
    /\ ret.val.fee # call.transaction.fee
    /\ ret.val.operations[1].body.auth # call.transaction.operations[1].body.auth
    /\ ret.val.ext # call.transaction.ext
    /\ call.transaction.operations[1].body.host_function.args # <<>>

PrepareOperations ==
    {"prepare_plant_transaction", "prepare_work_transaction",
     "prepare_harvest_transaction"}

\* The call has asked the transport to simulate and has the answer.
SimulateAnswered ==
    /\ log # <<>>
    /\ log[Len(log)].rpc = "simulateTransaction"
    /\ log[Len(log)].outcome # "pending"

\* C26: in every prepare call for an invocation (plant, work, harvest) the
\* steps are build, then simulate, then apply: the transaction sent to
\* simulate is the draft build made from a fetched account, and an envelope
\* is returned only when the simulation was answered without an error and
\* apply succeeded on that draft and that simulation; otherwise the call
\* returns an error.
C26_PrepareOrder ==
    call.op \in PrepareOperations =>
        /\ \A i \in DOMAIN log :
              log[i].rpc = "simulateTransaction" =>
                 /\ i = Len(log)
                 /\ i > 1
                 /\ log[i - 1].rpc = "getAccount"
                 /\ log[i - 1].outcome = "ok"
                 /\ log[i].arg = unsigned_envelope(frame.transaction)
                 /\ frame.transaction.ext = [v |-> 0]
        /\ (pc = "returned" /\ ret.ok) =>
              /\ SimulateAnswered
              /\ lastAnswer.ok
              /\ lastAnswer.val.error = "None"
              /\ ret.val.b64 = "TransactionEnvelope"
              /\ ret.val.value.signatures = <<>>
              /\ \E overflow_checks \in BOOLEAN :
                    apply_simulation_to_transaction(frame.transaction, lastAnswer.val,
                                                    overflow_checks)
                      = Ok(ret.val.value.tx)
        /\ (/\ pc = "returned"
            /\ SimulateAnswered
            /\ \/ ~lastAnswer.ok
               \/ lastAnswer.val.error # "None"
               \/ lastAnswer.val.results = <<>>
               \/ lastAnswer.val.transaction_data = EmptyString)
           => ~ret.ok

C26_Witness ==
    /\ Returned("prepare_harvest_transaction")
    /\ SimulateAnswered
    /\ lastAnswer.ok
    /\ lastAnswer.val.error # "None"
    /\ lastAnswer.val.results # <<>>
    /\ lastAnswer.val.transaction_data # EmptyString
    /\ ~ret.ok

\* The answer of the trustline lookup carries a trustline entry.
TrustlineRead(a) ==
    /\ a.ok
    /\ first_entry(a.val).some
    /\ first_entry(a.val).v.xdr.b64 = "LedgerEntryData"
    /\ first_entry(a.val).v.xdr.value.type = "Trustline"

\* The lookup reports no trustline: the transport failed, no entry came
\* back, or the entry is not a trustline.
NoTrustlineReported(a) ==
    \/ ~a.ok
    \/ ~first_entry(a.val).some
    \/ /\ first_entry(a.val).v.xdr.b64 = "LedgerEntryData"
       /\ first_entry(a.val).v.xdr.value.type # "Trustline"

MissingTrustline == Err("Account does not have a trustline")

\* C27: prepare_plant_transaction looks the farmer's KALE trustline up
\* first.  When the lookup reports no trustline the call fails with the
\* missing-trustline error after that one request: no getAccount, no
\* simulate, no envelope.  getAccount is requested, and so a plant draft is
\* built, only after a trustline entry was read.
C27_TrustlineFirst ==
    call.op = "prepare_plant_transaction" =>
        /\ log # <<>> =>
              /\ log[1].rpc = "getLedgerEntries"
              /\ log[1].arg = trustline_key(call.farmer_public_key, KALE_ASSET_CODE,
                                            KALE_ISSUER).val
        /\ Len(log) = 1 /\ log[1].outcome # "pending" =>
              /\ pc = "returned"
              /\ ~TrustlineRead(lastAnswer)
              /\ NoTrustlineReported(lastAnswer) => ret = MissingTrustline
        /\ Len(log) > 1 =>
              /\ log[1].outcome = "ok"
              /\ log[2].rpc = "getAccount"
              /\ log[2].outcome = "pending" => TrustlineRead(lastAnswer)
        /\ (pc = "returned" /\ ret.ok) => Len(log) = 3

C27_Witness ==
    /\ Returned("prepare_plant_transaction")
    /\ Len(log) = 1
    /\ lastAnswer.ok
    /\ first_entry(lastAnswer.val).some
    /\ NoTrustlineReported(lastAnswer)
    /\ ret = MissingTrustline

\* C28: every successful result (has_pail, has_worked, leading_zeros) of
\* get_pail_data has has_worked only with has_pail and leading_zeros = 0
\* whenever has_worked is false; an absent Pail entry gives exactly
\* (false, false, 0).
C28_PailResultShape ==
    Returned("get_pail_data") =>
        /\ ret.ok =>
              /\ ret.val[2] => ret.val[1]
              /\ ~ret.val[2] => ret.val[3] = 0
              /\ ret.val[1] <=> PailDecoded
        /\ (log # <<>> /\ log[1].outcome = "absent") => ret = Ok(<<FALSE, FALSE, 0>>)

C28_Witness ==
    /\ Returned("get_pail_data")
    /\ log # <<>>
    /\ log[1].outcome = "absent"
    /\ lastAnswer.ok
    /\ ret = Ok(<<FALSE, FALSE, 0>>)

\* The text is a decimal numeral: an optional sign out of `signs`, then one
\* digit or more.
IsNumeral(text, signs) ==
    LET digits == IF text # <<>> /\ Head(text) \in signs THEN Tail(text) ELSE text
    IN  /\ digits # <<>>
        /\ \A i \in DOMAIN digits : IsDigit(digits[i])

\* The numeric input of the request in service is malformed.
MalformedNumber ==
    \/ /\ handler.route = "/api/plant/prepare"
       /\ ~IsNumeral(handler.payload.amount, {"+", "-"})
    \/ /\ handler.route = "/api/work/prepare"
       /\ ~IsNumeral(handler.payload.nonce, {"+"})

\* A call of the core made for the request in service has returned an error.
CoreFailed ==
    \/ call # NoCall /\ pc = "returned" /\ ~ret.ok /\ ret # Panic
    \/ handler.warnings # <<>>

Replied == handler.stage = "done"

\* C21 as stated: malformed numeric input is answered 400 without a call of
\* the core, every request during which a call of the core returned an
\* error is answered 500, and no handler answers 200 after a call it made
\* failed.
C21_StatusMapping_Original ==
    Replied =>
        /\ MalformedNumber => reply.status = BAD_REQUEST /\ call = NoCall
        /\ CoreFailed => reply.status = INTERNAL_SERVER_ERROR
        /\ reply.status = STATUS_OK => ~CoreFailed

\* C21, amended: malformed numeric input is answered 400 without a call of
\* the core; a request to a handler other than handle_all_farmers during
\* which the call of the core returned an error is answered 500, never 200;
\* handle_all_farmers answers 200 whatever its calls returned and leaves
\* the farmers whose lookup failed out of the list.
C21_StatusMapping ==
    Replied =>
        /\ MalformedNumber => reply.status = BAD_REQUEST /\ call = NoCall
        /\ reply.status = BAD_REQUEST => call = NoCall /\ log = <<>>
        /\ handler.route # "/api/all_farmers" =>
              /\ CoreFailed => reply.status = INTERNAL_SERVER_ERROR
              /\ reply.status = STATUS_OK => call # NoCall /\ ret.ok
        /\ handler.route = "/api/all_farmers" =>
              /\ reply.status = STATUS_OK
              /\ \A i \in DOMAIN reply.body.farmers :
                    \A j \in DOMAIN handler.warnings :
                       reply.body.farmers[i].farmer_address # handler.warnings[j]

C21_Witness ==
    /\ Replied
    /\ handler.route = "/api/all_farmers"
    /\ handler.warnings # <<>>
    /\ reply.status = STATUS_OK
    /\ reply.body.farmers # <<>>

\* start_server has left the authentication loop with a public key, and a
\* plant submission has been answered with its hash.
Authenticated == server.pc \in PlantWait

PlantSubmitted ==
    /\ handler.route = "/api/plant/submit"
    /\ Replied
    /\ reply.status = STATUS_OK

\* C24: once the user has authenticated and a plant transaction has been
\* submitted successfully, authenticate_and_plant eventually returns the
\* public key and the transaction hash.
C24_ReturnsKeyAndHash ==
    (Authenticated /\ PlantSubmitted)
        ~> (server.pc = "returned" /\ server.result.ok)

\* C29: once a POST to /api/pubkey has set `completed`, start_server
\* eventually ends its authentication wait: it returns the authentication
\* error or leaves the loop with the public key.
C29_PubkeyEndsWait ==
    (auth_state.completed /\ server.pc \in AuthWait) ~> (server.pc \notin AuthWait)

\* Two callers hold the envelopes of prepare calls for the same account.
SameAccountDrafts ==
    /\ HoldsDraft(Running)
    /\ HoldsDraft(parked)
    /\ DraftOf(Running).source_account = DraftOf(parked).source_account

\* No transaction of the account has been applied: whatever was fetched for
\* it was fetched before either transaction was submitted.
NoneApplied(account) ==
    \A i \in DOMAIN ledger.accepted : ledger.accepted[i].source_account # account

\* C22: two concurrent preparations for the same account that both fetched
\* the account before either transaction was submitted both return drafts
\* with the sequence number fetched + 1, and the ledger applies at most one
\* transaction of an account and a sequence number.
C22_SameAccountRace ==
    /\ (SameAccountDrafts /\ NoneApplied(DraftOf(Running).source_account))
          => /\ DraftOf(Running).seq_num = DraftOf(parked).seq_num
             /\ DraftOf(Running).seq_num =
                   wrapping_add(ledger.seq[DraftOf(Running).source_account.key],
                                FromNat(1, 4))
    /\ \A i, j \in DOMAIN ledger.accepted :
          (/\ i # j
           /\ ledger.accepted[i].source_account = ledger.accepted[j].source_account)
             => ledger.accepted[i].seq_num # ledger.accepted[j].seq_num
    /\ \A t \in {Running, parked} :
          (/\ HoldsDraft(t)
           /\ \E i \in DOMAIN ledger.accepted :
                 /\ ledger.accepted[i].source_account = DraftOf(t).source_account
                 /\ ledger.accepted[i].seq_num = DraftOf(t).seq_num)
             => DraftOf(t).seq_num #
                   wrapping_add(ledger.seq[DraftOf(t).source_account.key], FromNat(1, 4))

\* Both callers hold a draft of the same account and sequence number and
\* nothing has been submitted.
C22_Witness ==
    /\ SameAccountDrafts
    /\ ledger.accepted = <<>>
    /\ DraftOf(Running).seq_num = DraftOf(parked).seq_num

\* A prepare call run alone against the ledger l: every request answered
\* from l, one after the other.
AloneBuild(l, source_account, function_name, args) ==
    LET transaction ==
            build_after_get_account(Strkey_from_string(source_account).val,
                                    function_name, args,
                                    LedgerAnswer(l, Request("getAccount", source_account)),
                                    TRUE)
    IN  IF ~transaction.ok THEN transaction
        ELSE prepare_after_simulate(
                 transaction.val,
                 LedgerAnswer(l, Request("simulateTransaction",
                                         unsigned_envelope(transaction.val))),
                 TRUE)

AlonePlant(l, c) ==
    LET key == trustline_key(c.farmer_public_key, KALE_ASSET_CODE, KALE_ISSUER)
        trustline == check_trustline_and_balance(
                         LedgerAnswer(l, Request("getLedgerEntries", key.val)))
        address == farmer_address(c.farmer_public_key)
    IN  IF ~key.ok THEN key
        ELSE IF ~trustline.ok THEN trustline
        ELSE IF ~trustline.val[1] THEN Err("Account does not have a trustline")
        ELSE IF ~address.ok THEN address
        ELSE AloneBuild(l, c.farmer_public_key, "plant",
                        plant_args(address.val, c.amount))

AloneWork(l, c) ==
    LET block_index ==
            get_block_info_index(LedgerAnswer(l, Request("getLedgerEntries", instance_key)))
        hash == calculate_work_hash(
                    get_block_info(block_index.val,
                                   LedgerAnswer(l, Request("getLedgerEntries",
                                                           BlockKey(block_index.val)))),
                    c.farmer_public_key, c.nonce)
        address == farmer_address(c.farmer_public_key)
    IN  IF ~block_index.ok THEN block_index
        ELSE IF ~hash.ok THEN hash
        ELSE IF ~address.ok THEN address
        ELSE AloneBuild(l, c.farmer_public_key, "work",
                        work_args(address.val, hash.val, c.nonce))

Alone(l, c) ==
    IF c.op = "prepare_plant_transaction" THEN AlonePlant(l, c) ELSE AloneWork(l, c)

\* C23: while the ledger data stay what they were, the envelope a prepare
\* call returns is the envelope the call returns when it runs alone against
\* those data, whatever the other caller did in between.
C23_NoInterference ==
    \A t \in {Running, parked} :
        (HoldsDraft(t) /\ ledger = LedgerStart) => t.ret = Alone(LedgerStart, t.call)

\* Both callers hold envelopes, for different accounts, and the ledger data
\* are unchanged.
C23_Witness ==
    /\ HoldsDraft(Running)
    /\ HoldsDraft(parked)
    /\ DraftOf(Running).source_account # DraftOf(parked).source_account
    /\ ledger = LedgerStart

BlockInfoReturned(t) ==
    /\ t.pc = "returned"
    /\ t.call.op = "get_block_info"
    /\ t.ret.ok
    /\ t.ret.val[2].some

WorkHashReturned(t) ==
    /\ t.pc = "returned"
    /\ t.call.op = "calculate_work_hash"
    /\ t.ret.ok

\* C30: an entropy get_block_info returns with the index i is the entropy of
\* the ledger's Block entry of i, i being the index the instance read gave,
\* whatever the FarmIndex has become since; and the preimage that
\* calculate_work_hash hashes starts with that index and holds the entropy
\* of its block.
C30_BlockInfoConsistent ==
    \A t \in {Running, parked} :
        /\ BlockInfoReturned(t)
              => /\ t.ret.val[1] = t.frame.block_index
                 /\ t.ret.val[1] \in DOMAIN ledger.blocks
                 /\ t.ret.val[2].v = ledger.blocks[t.ret.val[1]]
        /\ WorkHashReturned(t)
              => /\ t.frame.block_index \in DOMAIN ledger.blocks
                 /\ SubSeq(t.ret.val.keccak256, 1, 4) = u32_to_be_bytes(t.frame.block_index)
                 /\ SubSeq(t.ret.val.keccak256, 13, 44) =
                       BytesOf(ledger.blocks[t.frame.block_index])

\* get_block_info has returned the entropy of a block that is no longer the
\* current one, and the current one has its own entry.
C30_Witness ==
    /\ BlockInfoReturned(Running)
    /\ Running.ret.val[1] # ledger.farm_index
    /\ ledger.farm_index \in DOMAIN ledger.blocks

====
